---------------------------- MODULE Spec2Model ----------------------------
(***************************************************************************)
(* AscentPro (src/AscentPro.py): the taxonomy / member / meeting data      *)
(* model of class AscentPro, its mutation handlers and its JSON            *)
(* persistence (load_data / save_data).                                    *)
(*                                                                         *)
(* Conventions                                                             *)
(*  - A Python str is a sequence of one-character strings, so that         *)
(*    str.strip, str.split and f-string composition are computed, not      *)
(*    assumed.  The four family names are abbreviated to one letter        *)
(*    ("Technical Skills" is <<"T">>, ...); the abbreviation is injective. *)
(*  - A Python dict is an insertion-ordered sequence of [k, v] entries.    *)
(*  - A member skill field is [isdict, flat, nested]: the flat list of     *)
(*    strings of the current layout, or the nested map of the legacy one.  *)
(*  - A handler is one action.  The widgets the handlers read (comboboxes  *)
(*    and their StringVars) are state; widget construction is taken to     *)
(*    complete (as written, create_skill_section:449 indexes the dict      *)
(*    that initialize_ui_components:127 has just emptied).                 *)
(***************************************************************************)
EXTENDS Integers, Sequences, FiniteSets, TLC

VARIABLES
    running,        \* an AscentPro object exists and the event loop is idle
    disk,           \* path -> file content
    data_file,      \* self.data_file
    team_members,   \* self.team_members   : dict name -> member record
    skills_data,    \* self.skills_data    : [tech, soft, software, certs]
    subskills_data, \* self.subskills_data : family -> dict category -> list
    categories,     \* self.categories     : dict family -> dict category -> list
    meetings,       \* self.meetings       : list of meeting records
    category_vars,  \* self.category_vars[st].get()
    subskill_vars,  \* self.subskill_vars[st].get()
    cat_values,     \* self.category_dropdowns[st]['values']
    sub_values,     \* self.subskill_dropdowns[st]['values']
    member_var,     \* self.member_var.get()
    listboxes,      \* items of self.<key>_listbox, key a skill key
    goals_text,     \* text of self.goals_text
    meetings_listbox, \* items of self.meetings_listbox
    meeting_entries,  \* what on_meeting_select put into the date and title entries
    unsaved,        \* history: a store changed after the last save_data call
    msg,            \* feedback of the last handler (dialog shown / exception)
    added,          \* count of added subskills reported by the last handler
    warned          \* "Duplicate" warnings shown by the last handler

vars == <<running, disk, data_file, team_members, skills_data, subskills_data,
          categories, meetings, category_vars, subskill_vars, cat_values,
          sub_values, member_var, listboxes, goals_text, meetings_listbox,
          meeting_entries, unsaved, msg, added, warned>>

stores == <<team_members, skills_data, subskills_data, categories, meetings>>
widgets == <<category_vars, subskill_vars, cat_values, sub_values, member_var>>
meeting_widgets == <<meetings_listbox, meeting_entries>>
details == <<listboxes, goals_text, meeting_widgets>>

-----------------------------------------------------------------------------
(* Bounds of the model *)

MaxCategories == 2
MaxSubskills == 2
MaxLegacySkills == 2
MaxMembers == 2
MaxAssigned == 1
MaxMeetings == 2
MaxCerts == 2
MaxCsvRows == 2
MaxAchievements == 2

-----------------------------------------------------------------------------
(* Python strings *)

EmptyStr == <<>>

IsSpace(c) == c \in {" ", "\t", "\n"}

RECURSIVE LStrip(_)
LStrip(s) == IF s # <<>> /\ IsSpace(Head(s)) THEN LStrip(Tail(s)) ELSE s

RECURSIVE RStrip(_)
RStrip(s) ==
    IF s # <<>> /\ IsSpace(s[Len(s)]) THEN RStrip(SubSeq(s, 1, Len(s) - 1)) ELSE s

\* str.strip()
Strip(s) == RStrip(LStrip(s))

\* str.split(sep) for a one-character sep: every piece, empty ones included
RECURSIVE SplitAcc(_, _, _)
SplitAcc(s, sep, cur) ==
    IF s = <<>> THEN <<cur>>
    ELSE IF Head(s) = sep THEN <<cur>> \o SplitAcc(Tail(s), sep, <<>>)
    ELSE SplitAcc(Tail(s), sep, Append(cur, Head(s)))

Split(s, sep) == SplitAcc(s, sep, <<>>)

\* f"{category}: {skill}"
SkillString(category, skill) == category \o <<":", " ">> \o skill

\* x in list
InList(x, list) == \E i \in 1..Len(list) : list[i] = x

\* list.remove(x): the first occurrence (ValueError when absent is the caller's)
RemoveFirst(list, x) ==
    LET i == CHOOSE j \in 1..Len(list) :
                 list[j] = x /\ \A h \in 1..(j - 1) : list[h] # x
    IN  SubSeq(list, 1, i - 1) \o SubSeq(list, i + 1, Len(list))

-----------------------------------------------------------------------------
(* Python dicts *)

Keys(d) == [i \in 1..Len(d) |-> d[i].k]

Has(d, key) == \E i \in 1..Len(d) : d[i].k = key

Get(d, key) == d[CHOOSE i \in 1..Len(d) : d[i].k = key].v

\* d[key] = value
Put(d, key, value) ==
    IF Has(d, key)
    THEN [i \in 1..Len(d) |-> IF d[i].k = key THEN [k |-> key, v |-> value] ELSE d[i]]
    ELSE Append(d, [k |-> key, v |-> value])

\* del d[key]
Del(d, key) == SelectSeq(d, LAMBDA e : e.k # key)

\* d.get(key, default)
GetOr(d, key, default) == IF Has(d, key) THEN Get(d, key) ELSE default

-----------------------------------------------------------------------------
(* Families *)

TechnicalSkills == <<"T">>
SoftSkills == <<"S">>
SoftwareSkills == <<"W">>
Certifications == <<"C">>

\* the families with a management section (create_skills_management_tab)
SkillTypes == {TechnicalSkills, SoftSkills}

\* skill_type.lower().replace(' ', '_')
SkillKey(skill_type) ==
    CASE skill_type = TechnicalSkills -> "technical_skills"
      [] skill_type = SoftSkills -> "soft_skills"
      [] skill_type = SoftwareSkills -> "software_skills"
      [] OTHER -> "certifications"

FlatList(list) == [isdict |-> FALSE, flat |-> list, nested |-> <<>>]
LegacyMap(d) == [isdict |-> TRUE, flat |-> <<>>, nested |-> d]


-----------------------------------------------------------------------------
(* Records *)

\* the record add_team_member creates
NewMember(job_title, join_date, birthday) ==
    [job_title |-> job_title, join_date |-> join_date, birthday |-> birthday,
     technical_skills |-> FlatList(<<>>), soft_skills |-> FlatList(<<>>),
     software_skills |-> FlatList(<<>>), certifications |-> <<>>,
     goals |-> <<>>, development_plan |-> EmptyStr, hobbies |-> <<>>,
     interests |-> <<>>, family |-> EmptyStr, achievements |-> <<>>,
     issues_concerns |-> EmptyStr, other_personal_details |-> EmptyStr]

\* the record add_meeting creates
Meeting(date, title) ==
    [date |-> date, title |-> title, highlights |-> EmptyStr, notes |-> EmptyStr,
     action_items |-> EmptyStr]

\* initialize_empty_data
EmptyData ==
    [team_members |-> <<>>,
     skills_data |-> [tech |-> <<>>, soft |-> <<>>, software |-> <<>>, certs |-> <<>>],
     subskills_data |-> [st \in SkillTypes |-> <<>>],
     meetings |-> <<>>]

\* self.categories of initialize_data_structures
InitialCategories ==
    <<[k |-> TechnicalSkills, v |-> <<>>], [k |-> SoftSkills, v |-> <<>>],
      [k |-> SoftwareSkills, v |-> <<>>], [k |-> Certifications, v |-> <<>>]>>

-----------------------------------------------------------------------------
(* Files *)

DefaultPath == "career_progression_data.json"
OtherPath == "elsewhere.json"
Paths == {DefaultPath, OtherPath}

DocKeys == {"team_members", "skills_data", "subskills_data", "meetings"}

\* no file at the path
Missing == [kind |-> "missing", doc |-> EmptyData, keys |-> {}]
\* text that is not valid JSON: what is left of the text of `doc` (a truncated
\* or garbled document)
Malformed(doc) == [kind |-> "malformed", doc |-> doc, keys |-> DocKeys]
\* a well-formed JSON object holding the keys `keys`
DocFile(doc, keys) == [kind |-> "doc", doc |-> doc, keys |-> keys]

\* the object save_data passes to json.dump
DocOf(tm, sk, sd, mt) ==
    [team_members |-> tm, skills_data |-> sk, subskills_data |-> sd, meetings |-> mt]

Document == DocOf(team_members, skills_data, subskills_data, meetings)

-----------------------------------------------------------------------------
(* save_data *)

\* How the writes of one save_data call go: one entry per attempt,
\* [fail, retry].  fail is "open" (open() raises, the file is untouched) or
\* "write" (json.dump raises after open(..., 'w') truncated the file);
\* retry is the path the user then picks in handle_save_error, or "" when
\* the user declines or cancels the file dialog.  An attempt past the end of
\* the sequence succeeds.
NoRetry == ""
AlwaysSaves == {<<>>}
FailingSaves ==
    {<<[fail |-> f, retry |-> r]>> : f \in {"open", "write"}, r \in {NoRetry, OtherPath}}
    \cup {<<[fail |-> "write", retry |-> OtherPath], [fail |-> "open", retry |-> NoRetry]>>}

\* save_data that turns to the other path by itself when the user declines
RECURSIVE SaveDataFallback(_, _, _, _)
SaveDataFallback(d, path, doc, sv) ==
    IF sv = <<>>
    THEN [disk |-> [d EXCEPT ![path] = DocFile(doc, DocKeys)], data_file |-> path,
          saved |-> TRUE]
    ELSE LET after == IF Head(sv).fail = "write"
                      THEN [d EXCEPT ![path] = Malformed(doc)]
                      ELSE d
         IN  IF Head(sv).retry # NoRetry
             THEN SaveDataFallback(after, Head(sv).retry, doc, Tail(sv))
             ELSE SaveDataFallback(after, OtherPath, doc, <<>>)

\* save_data and handle_save_error: the disk, self.data_file, and whether the
\* document was written
RECURSIVE SaveData(_, _, _, _)
SaveData(d, path, doc, sv) ==
    IF sv = <<>>
    THEN [disk |-> [d EXCEPT ![path] = DocFile(doc, DocKeys)], data_file |-> path,
          saved |-> TRUE]
    ELSE LET after == IF Head(sv).fail = "write"
                      THEN [d EXCEPT ![path] = Malformed(doc)]
                      ELSE d
         IN  IF Head(sv).retry # NoRetry
             THEN SaveData(after, Head(sv).retry, doc, Tail(sv))
             ELSE [disk |-> after, data_file |-> path, saved |-> FALSE]

-----------------------------------------------------------------------------
(* load_data *)

\* a conversion that puts each new string in front (new_skills.insert(0, ...))
RECURSIVE FlattenNestedInFront(_)
FlattenNestedInFront(d) ==
    IF d = <<>> THEN <<>>
    ELSE FlattenNestedInFront(Tail(d))
             \o [i \in 1..Len(Head(d).v) |->
                    SkillString(Head(d).k, Head(d).v[Len(Head(d).v) + 1 - i])]

\* the inner loops of the conversion: one "category: skill" per skill
RECURSIVE FlattenNested(_)
FlattenNested(d) ==
    IF d = <<>> THEN <<>>
    ELSE [i \in 1..Len(Head(d).v) |-> SkillString(Head(d).k, Head(d).v[i])]
             \o FlattenNested(Tail(d))

ConvertField(f) == IF f.isdict THEN FlatList(FlattenNested(f.nested)) ELSE f

\* for skill_type in ["technical_skills", "soft_skills"]
ConvertMember(m) ==
    [m EXCEPT !.technical_skills = ConvertField(@), !.soft_skills = ConvertField(@)]

ConvertMembers(tm) == [i \in 1..Len(tm) |-> [k |-> tm[i].k, v |-> ConvertMember(tm[i].v)]]

\* a loader that takes whatever text it finds for a document
LoadDataLenient(content) ==
    IF content.kind = "missing" THEN EmptyData
    ELSE [team_members |-> ConvertMembers(content.doc.team_members),
          skills_data |-> content.doc.skills_data,
          subskills_data |-> content.doc.subskills_data,
          meetings |-> content.doc.meetings]

\* the four stores load_data leaves behind for a file content
LoadData(content) ==
    IF content.kind # "doc" THEN EmptyData
    ELSE LET Field(key) == IF key \in content.keys THEN content.doc[key]
                           ELSE EmptyData[key]
         IN  [team_members |-> ConvertMembers(Field("team_members")),
              skills_data |-> Field("skills_data"),
              subskills_data |-> Field("subskills_data"),
              meetings |-> Field("meetings")]

-----------------------------------------------------------------------------
(* The meetings list *)

\* the characters of a date in code point order
CodePoints ==
    <<"-", "/", "0", "1", "2", "3", "4", "5", "6", "7", "8", "9">>
Ord(c) == CHOOSE i \in 1..Len(CodePoints) : CodePoints[i] = c

\* a < b for Python strings
RECURSIVE StrLess(_, _)
StrLess(a, b) ==
    IF b = <<>> THEN FALSE
    ELSE IF a = <<>> THEN TRUE
    ELSE IF Head(a) = Head(b) THEN StrLess(Tail(a), Tail(b))
    ELSE Ord(Head(a)) < Ord(Head(b))

\* sorted(list, key=lambda x: x['date'], reverse=True): descending by the date
\* string, equal dates in the order of the list
RECURSIVE InsertByDate(_, _)
InsertByDate(sorted, meeting) ==
    IF sorted = <<>> THEN <<meeting>>
    ELSE IF StrLess(Head(sorted).date, meeting.date)
         THEN <<meeting>> \o sorted
         ELSE <<Head(sorted)>> \o InsertByDate(Tail(sorted), meeting)

RECURSIVE SortedByDate(_)
SortedByDate(list) ==
    IF list = <<>> THEN <<>>
    ELSE InsertByDate(SortedByDate(SubSeq(list, 1, Len(list) - 1)), list[Len(list)])

\* f"{meeting['date']} - {meeting['title']}"
MeetingItem(meeting) == meeting.date \o <<" ", "-", " ">> \o meeting.title

\* refresh_meetings_list: the items of the listbox
RefreshMeetingsList(mt) ==
    LET sorted == SortedByDate(mt)
    IN  [i \in 1..Len(sorted) |-> MeetingItem(sorted[i])]

\* the date and title entries before any meeting was selected
NoEntries == [date |-> EmptyStr, title |-> EmptyStr]

-----------------------------------------------------------------------------
(* Widgets *)

EmptyCombos == [st \in SkillTypes |-> <<>>]

\* the listboxes the object holds: create_skill_section sets
\* technical_skills_listbox, soft_skills_listbox and certifications_listbox,
\* create_certifications_section then rebinds certifications_listbox to the
\* listbox of the management tab; software_skills_listbox stays None
ListboxKeys == {"technical_skills", "soft_skills", "certifications"}
EmptyListboxes == [key \in ListboxKeys |-> <<>>]

\* what `for skill in skill_list` yields for a stored skill field
Items(field) == IF field.isdict THEN Keys(field.nested) ELSE field.flat

\* sep.join(list)
RECURSIVE Join(_, _)
Join(list, sep) ==
    IF list = <<>> THEN <<>>
    ELSE IF Len(list) = 1 THEN list[1]
    ELSE list[1] \o <<sep>> \o Join(Tail(list), sep)

\* refresh_member_skills for every family, as load_member_data calls it
MemberListboxes(member) ==
    [key \in ListboxKeys |->
        IF key = "certifications" THEN member.certifications ELSE Items(member[key])]

\* load_member_data (the definition at line 946): the listboxes and the goals
\* text of the member details tab for the selected name
LoadMemberData(tm, name) ==
    IF Has(tm, name)
    THEN [listboxes |-> MemberListboxes(Get(tm, name)),
          goals_text |-> Join(Get(tm, name).goals, "\n")]
    ELSE [listboxes |-> EmptyListboxes, goals_text |-> EmptyStr]

\* populate_category_dropdowns, for one family: [values, var, subvalues, subvar]
PopulateCategoryDropdown(sd, st, old_subskill) ==
    LET cats == Keys(sd[st])
    IN  IF cats # <<>>
        THEN LET subs == Get(sd[st], cats[1])
             IN  [values |-> cats, var |-> cats[1], subvalues |-> subs,
                  subvar |-> IF subs # <<>> THEN subs[1] ELSE old_subskill]
        ELSE [values |-> <<>>, var |-> EmptyStr, subvalues |-> <<>>,
              subvar |-> EmptyStr]

\* refresh_member_dropdown: member_var and, through load_member_data, the
\* category widgets.  cv, sv, cvals, svals are the widgets before the call.
RefreshMemberDropdown(tm, sd, cv, sv, cvals, svals) ==
    IF tm # <<>>
    THEN LET p == [st \in SkillTypes |-> PopulateCategoryDropdown(sd, st, sv[st])]
             d == LoadMemberData(tm, tm[1].k)
         IN  [member_var |-> tm[1].k,
              listboxes |-> d.listboxes, goals_text |-> d.goals_text,
              category_vars |-> [st \in SkillTypes |-> p[st].var],
              subskill_vars |-> [st \in SkillTypes |-> p[st].subvar],
              cat_values |-> [st \in SkillTypes |-> p[st].values],
              sub_values |-> [st \in SkillTypes |-> p[st].subvalues]]
    ELSE [member_var |-> EmptyStr,
          listboxes |-> EmptyListboxes, goals_text |-> EmptyStr,
          category_vars |-> cv, subskill_vars |-> sv,
          cat_values |-> cvals, sub_values |-> svals]

-----------------------------------------------------------------------------
(* Construction and shutdown *)

\* AscentPro.__init__: initialize_data_structures, load_data, create_widgets
\* (which ends with self.meetings = []), refresh_member_dropdown
Startup ==
    /\ ~running
    /\ running' = TRUE
    /\ data_file' = DefaultPath
    /\ LET ld == LoadData(disk[DefaultPath])
           w == RefreshMemberDropdown(ld.team_members, ld.subskills_data,
                    EmptyCombos, EmptyCombos, EmptyCombos, EmptyCombos)
       IN  /\ team_members' = ld.team_members
           /\ skills_data' = ld.skills_data
           /\ subskills_data' = ld.subskills_data
           /\ meetings' = <<>>
           /\ member_var' = w.member_var
           /\ category_vars' = w.category_vars
           /\ subskill_vars' = w.subskill_vars
           /\ cat_values' = w.cat_values
           /\ sub_values' = w.sub_values
           /\ listboxes' = w.listboxes
           /\ goals_text' = w.goals_text
           /\ meetings_listbox' = RefreshMeetingsList(ld.meetings)
    /\ meeting_entries' = NoEntries
    /\ categories' = InitialCategories
    /\ unsaved' = FALSE
    /\ msg' = "started"
    /\ added' = 0
    /\ warned' = 0
    /\ UNCHANGED disk

\* close_app: save_config and destroy; the stores die with the object
CloseApp ==
    /\ running
    /\ running' = FALSE
    /\ team_members' = EmptyData.team_members
    /\ skills_data' = EmptyData.skills_data
    /\ subskills_data' = EmptyData.subskills_data
    /\ meetings' = EmptyData.meetings
    /\ categories' = InitialCategories
    /\ category_vars' = EmptyCombos
    /\ subskill_vars' = EmptyCombos
    /\ cat_values' = EmptyCombos
    /\ sub_values' = EmptyCombos
    /\ member_var' = EmptyStr
    /\ listboxes' = EmptyListboxes
    /\ goals_text' = EmptyStr
    /\ meetings_listbox' = <<>>
    /\ meeting_entries' = NoEntries
    /\ unsaved' = FALSE
    /\ msg' = "closed"
    /\ added' = 0
    /\ warned' = 0
    /\ UNCHANGED <<disk, data_file>>

\* no AscentPro object: the state before Startup, for a given disk
Off(d) ==
    /\ running = FALSE
    /\ disk = d
    /\ data_file = DefaultPath
    /\ team_members = EmptyData.team_members
    /\ skills_data = EmptyData.skills_data
    /\ subskills_data = EmptyData.subskills_data
    /\ meetings = EmptyData.meetings
    /\ categories = InitialCategories
    /\ category_vars = EmptyCombos
    /\ subskill_vars = EmptyCombos
    /\ cat_values = EmptyCombos
    /\ sub_values = EmptyCombos
    /\ member_var = EmptyStr
    /\ listboxes = EmptyListboxes
    /\ goals_text = EmptyStr
    /\ meetings_listbox = <<>>
    /\ meeting_entries = NoEntries
    /\ unsaved = FALSE
    /\ msg = "closed"
    /\ added = 0
    /\ warned = 0

-----------------------------------------------------------------------------
(* The persisted documents the load is checked on *)

CatA == <<"a">>
CatB == <<"b">>
SubX == <<"x">>
SubY == <<"y">>
NameM == <<"m">>
NameN == <<"n">>
Date1 == <<"0", "1", "/", "0", "2", "/", "2", "0", "2", "4">>
Title1 == <<"t">>

SeqsUpTo(S, n) == UNION {[1..h -> S] : h \in 0..n}

\* nested maps {category: [skill, ...]} of the legacy layout
LegacyDicts ==
    LET vals == SeqsUpTo({SubX, SubY}, MaxLegacySkills)
        one == {<<[k |-> c, v |-> s]>> : c \in {CatA, CatB}, s \in vals}
        two == {<<[k |-> c[1], v |-> s[1]], [k |-> c[2], v |-> s[2]]>> :
                   c \in {<<CatA, CatB>>, <<CatB, CatA>>}, s \in vals \X vals}
    IN  {<<>>} \cup one \cup two

FlatLists ==
    {<<>>, <<SkillString(CatA, SubX)>>,
     <<SkillString(CatB, SubY), SkillString(CatA, SubX)>>}

FieldValues == {LegacyMap(d) : d \in LegacyDicts} \cup {FlatList(l) : l \in FlatLists}

FewFieldValues ==
    {FlatList(<<>>), FlatList(<<SkillString(CatA, SubX)>>),
     LegacyMap(<<[k |-> CatB, v |-> <<SubY, SubX>>]>>)}

StoredMember(tech, soft, software) ==
    [NewMember(EmptyStr, Date1, Date1) EXCEPT
        !.technical_skills = tech, !.soft_skills = soft, !.software_skills = software]

StoredRegistries ==
    {<<>>}
    \cup {<<[k |-> NameM, v |-> StoredMember(t, s, w)]>> :
             t \in FieldValues, s \in FewFieldValues, w \in FewFieldValues}
    \cup {<<[k |-> NameM, v |-> StoredMember(t, w, FlatList(<<>>))],
            [k |-> NameN, v |-> StoredMember(s, t, w)]>> :
             t \in FewFieldValues, s \in FewFieldValues, w \in FewFieldValues}

StoredTaxonomy ==
    [st \in SkillTypes |->
        IF st = TechnicalSkills THEN <<[k |-> CatA, v |-> <<SubX>>]>> ELSE <<>>]

StoredSkills ==
    [tech |-> <<>>, soft |-> <<>>, software |-> <<>>, certs |-> <<<<"c">>>>]

\* a document with nothing but members, and one with every store filled
StoredDocuments ==
    {[EmptyData EXCEPT !.team_members = tm] : tm \in StoredRegistries}
    \cup {[team_members |-> tm, skills_data |-> StoredSkills,
            subskills_data |-> StoredTaxonomy,
            meetings |-> <<Meeting(Date1, Title1)>>] : tm \in StoredRegistries}

FewDocuments == {d \in StoredDocuments : Len(d.team_members) # 1}

StoredFiles ==
    {Missing}
    \cup {DocFile(d, DocKeys) : d \in StoredDocuments}
    \cup {DocFile(d, {"team_members"}) : d \in FewDocuments}
    \cup {Malformed(d) : d \in FewDocuments}

DiskWith(content) == [p \in Paths |-> IF p = DefaultPath THEN content ELSE Missing]

InitLoad == \E f \in StoredFiles : Off(DiskWith(f))

NextLoad == Startup \/ CloseApp

SpecLoad == InitLoad /\ [][NextLoad]_vars

-----------------------------------------------------------------------------
(* Widgets of the skills management tab *)

Widgets ==
    [category_vars |-> category_vars, subskill_vars |-> subskill_vars,
     cat_values |-> cat_values, sub_values |-> sub_values]

SetWidgets(w) ==
    /\ category_vars' = w.category_vars
    /\ subskill_vars' = w.subskill_vars
    /\ cat_values' = w.cat_values
    /\ sub_values' = w.sub_values

\* the handler reports no count and shows no duplicate warning
Quiet == added' = 0 /\ warned' = 0

\* on_category_select (the definition at line 1091, which replaces line 492's)
OnCategorySelect(cats, st, w) ==
    IF w.category_vars[st] = EmptyStr THEN w
    ELSE LET subs == GetOr(GetOr(cats, st, <<>>), w.category_vars[st], <<>>)
         IN  [w EXCEPT !.sub_values[st] = subs,
                       !.subskill_vars[st] = IF subs # <<>> THEN subs[1] ELSE EmptyStr]

\* refresh_categories
RefreshCategories(cats, st, w) ==
    LET vals == Keys(Get(cats, st))
    IN  IF vals # <<>>
        THEN OnCategorySelect(cats, st,
                 [w EXCEPT !.cat_values[st] = vals, !.category_vars[st] = vals[1]])
        ELSE [w EXCEPT !.cat_values[st] = vals]

\* the user picks an entry of the category combobox
SelectCategory(st, c) ==
    /\ running
    /\ InList(c, cat_values[st])
    /\ SetWidgets(OnCategorySelect(categories, st,
                      [Widgets EXCEPT !.category_vars[st] = c]))
    /\ msg' = "selected"
    /\ UNCHANGED <<running, disk, data_file, stores, member_var, details,
                   unsaved>> /\ Quiet

\* the user picks an entry of the subskill combobox
SelectSubskill(st, sub) ==
    /\ running
    /\ InList(sub, sub_values[st])
    /\ subskill_vars' = [subskill_vars EXCEPT ![st] = sub]
    /\ msg' = "selected"
    /\ UNCHANGED <<running, disk, data_file, stores, category_vars, cat_values,
                   sub_values, member_var, details,
                   unsaved>> /\ Quiet

-----------------------------------------------------------------------------
(* Handlers: what a handler leaves on disk *)

\* the handler ends with save_data() on the stores it leaves
Saves(doc, sv) ==
    LET r == SaveData(disk, data_file, doc, sv)
    IN  /\ disk' = r.disk
        /\ data_file' = r.data_file
        /\ unsaved' = ~r.saved

\* the handler returns (or raises) without calling save_data
NoSave(changed) ==
    /\ UNCHANGED <<disk, data_file>>
    /\ unsaved' = (unsaved \/ changed)

\* the handler returns having changed nothing but its feedback
Rejects(feedback) ==
    /\ msg' = feedback
    /\ UNCHANGED <<running, disk, data_file, stores, widgets, details,
                   unsaved>> /\ Quiet

-----------------------------------------------------------------------------
(* Taxonomy handlers *)

\* a duplicate-blind prompt loop: every answer is appended
RECURSIVE PromptLoopNoCheck(_, _)
PromptLoopNoCheck(list, answers) ==
    IF answers = <<>> THEN list
    ELSE PromptLoopNoCheck(Append(list, Strip(Head(answers))), Tail(answers))

\* the while loop of add_subskills_to_category: `answers` are the non-empty
\* strings the user enters before cancelling
RECURSIVE PromptLoop(_, _)
PromptLoop(list, answers) ==
    IF answers = <<>> THEN list
    ELSE LET new_subskill == Strip(Head(answers))
         IN  PromptLoop(IF InList(new_subskill, list) THEN list
                        ELSE Append(list, new_subskill), Tail(answers))

\* an add_category that overwrites an existing category
AddCategoryNoCheck(st, answer, answers, sv1, sv2) ==
    /\ running
    /\ answer # EmptyStr
    /\ LET new_category == Strip(answer)
           fam == Get(categories, st)
           subs == PromptLoop(<<>>, answers)
           cats == Put(categories, st, Put(fam, new_category, subs))
       IN  /\ Len(Put(fam, new_category, subs)) <= MaxCategories
           /\ Len(subs) <= MaxSubskills
           /\ categories' = cats
           /\ SetWidgets(RefreshCategories(cats, st, Widgets))
           /\ Saves(Document, sv2)
           /\ warned' = Len(answers) - Len(subs)
    /\ msg' = "category added"
    /\ UNCHANGED <<running, team_members, skills_data, subskills_data, meetings,
                   member_var,
                   details>> /\ added' = 0

\* add_category, with the prompt loop of add_subskills_to_category it ends in
AddCategory(st, answer, answers, sv1, sv2) ==
    /\ running
    /\ IF answer = EmptyStr
       THEN Rejects("cancelled")
       ELSE LET new_category == Strip(answer)
                fam == Get(categories, st)
            IN  IF Has(fam, new_category)
                THEN Rejects("error: category exists")
                ELSE LET subs == PromptLoop(<<>>, answers)
                         cats == Put(categories, st, Put(fam, new_category, subs))
                         r1 == SaveData(disk, data_file, Document, sv1)
                         r2 == SaveData(r1.disk, r1.data_file, Document, sv2)
                     IN  /\ Len(fam) < MaxCategories
                         /\ Len(subs) <= MaxSubskills
                         /\ categories' = cats
                         /\ SetWidgets(RefreshCategories(cats, st, Widgets))
                         /\ disk' = r2.disk
                         /\ data_file' = r2.data_file
                         /\ unsaved' = ~r2.saved
                         /\ msg' = "category added"
                         /\ warned' = Len(answers) - Len(subs)
                         /\ UNCHANGED <<running, team_members, skills_data,
                                        subskills_data, meetings, member_var,
                                        details>> /\ added' = 0

\* [s.strip() for s in subskills_text.split(',') if s.strip()]
RECURSIVE StripAll(_)
StripAll(parts) ==
    IF parts = <<>> THEN <<>>
    ELSE (IF Strip(Head(parts)) # EmptyStr THEN <<Strip(Head(parts))>> ELSE <<>>)
             \o StripAll(Tail(parts))

Tokens(text) == StripAll(Split(text, ","))

\* the for loop of add_multiple_subskills: [list, added_subskills]
RECURSIVE BulkLoop(_, _, _)
BulkLoop(list, added_subskills, subskills) ==
    IF subskills = <<>> THEN [list |-> list, added |-> added_subskills]
    ELSE IF InList(Head(subskills), list)
         THEN BulkLoop(list, added_subskills, Tail(subskills))
         ELSE BulkLoop(Append(list, Head(subskills)),
                       Append(added_subskills, Head(subskills)), Tail(subskills))

\* add_multiple_subskills; `entry` is the text of self.subskill_entry
AddMultipleSubskills(st, entry, sv) ==
    /\ running
    /\ LET category == category_vars[st]
           subskills_text == Strip(entry)
           subskills == Tokens(subskills_text)
       IN  IF category = EmptyStr THEN Rejects("error: select a category")
           ELSE IF subskills_text = EmptyStr THEN Rejects("error: enter subskills")
           ELSE IF subskills # <<>> /\ ~Has(subskills_data[st], category)
                THEN Rejects("KeyError")
           ELSE IF subskills = <<>>
                THEN /\ msg' = "no changes"
                     /\ added' = 0
                     /\ warned' = 0
                     /\ UNCHANGED <<running, disk, data_file, stores, widgets,
                                    details, unsaved>>
           ELSE LET r == BulkLoop(Get(subskills_data[st], category), <<>>, subskills)
                    sd == [subskills_data EXCEPT ![st] = Put(@, category, r.list)]
                IN  /\ Len(r.list) <= MaxSubskills
                    /\ subskills_data' = sd
                    /\ added' = Len(r.added)
                    /\ warned' = Len(subskills) - Len(r.added)
                    /\ IF r.added # <<>>
                       THEN /\ Saves(DocOf(team_members, skills_data, sd, meetings), sv)
                            /\ SetWidgets(RefreshCategories(categories, st, Widgets))
                            /\ msg' = "subskills added"
                       ELSE /\ NoSave(FALSE)
                            /\ msg' = "no changes"
                            /\ UNCHANGED <<category_vars, subskill_vars, cat_values,
                                           sub_values>>
                    /\ UNCHANGED <<running, team_members, skills_data, categories,
                                   meetings, member_var,
                                   details>>

\* delete_subskill; `yes` is the answer to the confirmation
DeleteSubskill(st, yes, sv) ==
    /\ running
    /\ LET category == category_vars[st]
           subskill == subskill_vars[st]
       IN  IF category = EmptyStr \/ subskill = EmptyStr
           THEN Rejects("error: select a category and subskill")
           ELSE IF ~yes THEN Rejects("declined")
           ELSE IF ~Has(subskills_data[st], category) THEN Rejects("KeyError")
           ELSE IF ~InList(subskill, Get(subskills_data[st], category))
                THEN Rejects("ValueError")
           ELSE LET sd == [subskills_data EXCEPT ![st] =
                               Put(@, category, RemoveFirst(Get(@, category), subskill))]
                IN  /\ subskills_data' = sd
                    /\ Saves(DocOf(team_members, skills_data, sd, meetings), sv)
                    /\ SetWidgets(RefreshCategories(categories, st, Widgets))
                    /\ msg' = "subskill deleted"
                    /\ UNCHANGED <<running, team_members, skills_data, categories,
                                   meetings, member_var,
                                   details>> /\ Quiet

\* a deletion that also drops the "category: subskill" strings of the
\* deleted category from every member's list of the family
DeleteCategoryCascade(st, yes, sv) ==
    /\ running
    /\ LET category == category_vars[st]
           prefix == category \o <<":", " ">>
           Refers(skill) == /\ Len(skill) >= Len(prefix)
                            /\ SubSeq(skill, 1, Len(prefix)) = prefix
           Kept(list) == SelectSeq(list, LAMBDA skill : ~Refers(skill))
           tm == [i \in 1..Len(team_members) |->
                     [team_members[i] EXCEPT
                         !.v[SkillKey(st)].flat = Kept(@)]]
       IN  IF category = EmptyStr THEN Rejects("error: select a category")
           ELSE IF ~yes THEN Rejects("declined")
           ELSE IF ~Has(Get(categories, st), category) THEN Rejects("KeyError")
           ELSE LET cats == Put(categories, st, Del(Get(categories, st), category))
                IN  /\ categories' = cats
                    /\ team_members' = tm
                    /\ Saves(DocOf(tm, skills_data, subskills_data, meetings), sv)
                    /\ SetWidgets(RefreshCategories(cats, st, Widgets))
                    /\ msg' = "category deleted"
                    /\ UNCHANGED <<running, skills_data, subskills_data,
                                   meetings, member_var,
                                   details>> /\ Quiet

\* delete_category
DeleteCategory(st, yes, sv) ==
    /\ running
    /\ LET category == category_vars[st]
       IN  IF category = EmptyStr THEN Rejects("error: select a category")
           ELSE IF ~yes THEN Rejects("declined")
           ELSE IF ~Has(Get(categories, st), category) THEN Rejects("KeyError")
           ELSE LET cats == Put(categories, st, Del(Get(categories, st), category))
                IN  /\ categories' = cats
                    /\ Saves(Document, sv)
                    /\ SetWidgets(RefreshCategories(cats, st, Widgets))
                    /\ msg' = "category deleted"
                    /\ UNCHANGED <<running, team_members, skills_data, subskills_data,
                                   meetings, member_var,
                                   details>> /\ Quiet

\* add_hierarchical_skill; `answer` is what the user types when no subskill
\* is selected
AddHierarchicalSkill(st, answer, sv1, sv2) ==
    /\ running
    /\ LET category == category_vars[st]
           prompted == subskill_vars[st] = EmptyStr
           subskill == IF prompted THEN Strip(answer) ELSE subskill_vars[st]
           known == Has(subskills_data[st], category)
           is_new == prompted /\ known /\ ~InList(subskill, Get(subskills_data[st], category))
           sd == IF is_new
                 THEN [subskills_data EXCEPT ![st] =
                          Put(@, category, Append(Get(@, category), subskill))]
                 ELSE subskills_data
           w == IF is_new THEN RefreshCategories(categories, st, Widgets) ELSE Widgets
           skill == SkillString(category, subskill)
           key == SkillKey(st)
           r1 == IF is_new
                 THEN SaveData(disk, data_file,
                               DocOf(team_members, skills_data, sd, meetings), sv1)
                 ELSE [disk |-> disk, data_file |-> data_file, saved |-> ~unsaved]
       IN  IF category = EmptyStr THEN Rejects("error: select a category")
           ELSE IF prompted /\ answer = EmptyStr THEN Rejects("cancelled")
           ELSE IF prompted /\ ~known THEN Rejects("KeyError")
           ELSE /\ subskills_data' = sd
                /\ is_new => Len(Get(sd[st], category)) <= MaxSubskills
                /\ SetWidgets(w)
                /\ IF member_var = EmptyStr
                      \/ InList(skill, Get(team_members, member_var)[key].flat)
                   THEN /\ msg' = IF member_var = EmptyStr
                                  THEN "error: select a member"
                                  ELSE "error: already assigned"
                        /\ disk' = r1.disk
                        /\ data_file' = r1.data_file
                        /\ unsaved' = ~r1.saved
                        /\ UNCHANGED team_members
                   ELSE LET m == Get(team_members, member_var)
                            tm == Put(team_members, member_var,
                                      [m EXCEPT ![key].flat = Append(@, skill)])
                            r2 == SaveData(r1.disk, r1.data_file,
                                           DocOf(tm, skills_data, sd, meetings), sv2)
                        IN  /\ Len(m[key].flat) < MaxAssigned
                            /\ team_members' = tm
                            /\ disk' = r2.disk
                            /\ data_file' = r2.data_file
                            /\ unsaved' = ~r2.saved
                            /\ msg' = "skill added"
                /\ warned' = IF prompted /\ ~is_new THEN 1 ELSE 0
                /\ UNCHANGED <<running, skills_data, categories, meetings,
                               member_var,
                               details>> /\ added' = 0

\* one csv.reader row of a line (delimiter '\t'); a blank line gives []
CsvRow(line) == IF line = <<>> THEN <<>> ELSE Split(line, "\t")

\* the loop without the test `skill not in ...`
RECURSIVE CsvLoopNoCheck(_, _)
CsvLoopNoCheck(cats, lines) ==
    IF lines = <<>> THEN [cats |-> cats, ok |-> TRUE]
    ELSE LET row0 == CsvRow(Head(lines))
             row == IF Len(row0) = 1 THEN Split(row0[1], ",") ELSE row0
         IN  IF Len(row) # 3 THEN [cats |-> cats, ok |-> FALSE]
             ELSE LET category == Strip(row[1])
                      subcategory == Strip(row[2])
                      skill == Strip(row[3])
                      fam == GetOr(cats, category, <<>>)
                      list == GetOr(fam, subcategory, <<>>)
                  IN  CsvLoopNoCheck(Put(cats, category,
                                         Put(fam, subcategory, Append(list, skill))),
                                     Tail(lines))

\* the loop going on after a row of the wrong length
RECURSIVE CsvLoopSkips(_, _)
CsvLoopSkips(cats, lines) ==
    IF lines = <<>> THEN [cats |-> cats, ok |-> TRUE]
    ELSE LET row0 == CsvRow(Head(lines))
             row == IF Len(row0) = 1 THEN Split(row0[1], ",") ELSE row0
         IN  IF Len(row) # 3
             THEN [cats |-> CsvLoopSkips(cats, Tail(lines)).cats, ok |-> FALSE]
             ELSE LET category == Strip(row[1])
                      subcategory == Strip(row[2])
                      skill == Strip(row[3])
                      fam == GetOr(cats, category, <<>>)
                      list == GetOr(fam, subcategory, <<>>)
                      list2 == IF InList(skill, list) THEN list ELSE Append(list, skill)
                  IN  CsvLoopSkips(Put(cats, category, Put(fam, subcategory, list2)),
                                   Tail(lines))

\* the for loop of upload_skills_csv over the rows after the header:
\* the categories it leaves and whether it ran to the end
RECURSIVE CsvLoop(_, _)
CsvLoop(cats, lines) ==
    IF lines = <<>> THEN [cats |-> cats, ok |-> TRUE]
    ELSE LET row0 == CsvRow(Head(lines))
             row == IF Len(row0) = 1 THEN Split(row0[1], ",") ELSE row0
         IN  IF Len(row) # 3 THEN [cats |-> cats, ok |-> FALSE]
             ELSE LET category == Strip(row[1])
                      subcategory == Strip(row[2])
                      skill == Strip(row[3])
                      fam == GetOr(cats, category, <<>>)
                      list == GetOr(fam, subcategory, <<>>)
                      list2 == IF InList(skill, list) THEN list ELSE Append(list, skill)
                  IN  CsvLoop(Put(cats, category, Put(fam, subcategory, list2)),
                              Tail(lines))

\* upload_skills_csv; `chosen` is whether a file was picked, `lines` are the
\* lines of the file after its header row
UploadSkillsCsv(chosen, lines, sv) ==
    /\ running
    /\ IF ~chosen THEN Rejects("cancelled")
       ELSE LET r == CsvLoop(categories, lines)
            IN  /\ Len(r.cats) <= Len(InitialCategories) + 1
                /\ \A i \in 1..Len(r.cats) :
                       /\ Len(r.cats[i].v) <= MaxCategories
                       /\ \A j \in 1..Len(r.cats[i].v) :
                              Len(r.cats[i].v[j].v) <= MaxSubskills
                /\ categories' = r.cats
                /\ IF r.ok
                   THEN /\ Saves(Document, sv)
                        /\ SetWidgets(RefreshCategories(r.cats, TechnicalSkills, Widgets))
                        /\ msg' = "csv processed"
                   ELSE /\ NoSave(r.cats # categories)
                        /\ msg' = "error: csv"
                        /\ UNCHANGED <<category_vars, subskill_vars, cat_values,
                                       sub_values>>
                /\ UNCHANGED <<running, team_members, skills_data, subskills_data,
                               meetings, member_var,
                               details>> /\ Quiet

\* add_certification
AddCertification(answer, sv) ==
    /\ running
    /\ LET cert == Strip(answer)
       IN  IF answer = EmptyStr THEN Rejects("cancelled")
           ELSE IF InList(cert, skills_data.certs)
                THEN Rejects("error: certification exists")
           ELSE LET sk == [skills_data EXCEPT !.certs = Append(@, cert)]
                IN  /\ Len(skills_data.certs) < MaxCerts
                    /\ skills_data' = sk
                    /\ Saves(DocOf(team_members, sk, subskills_data, meetings), sv)
                    /\ UNCHANGED meeting_widgets
                    /\ listboxes' = [listboxes EXCEPT !.certifications = sk.certs]
                    /\ msg' = "certification added"
                    /\ UNCHANGED <<running, team_members, subskills_data, categories,
                                   meetings, widgets, goals_text>> /\ Quiet

-----------------------------------------------------------------------------
(* Dates *)

Digits == <<"0", "1", "2", "3", "4", "5", "6", "7", "8", "9">>
IsDigit(c) == \E i \in 1..Len(Digits) : Digits[i] = c
DigitValue(c) == (CHOOSE i \in 1..Len(Digits) : Digits[i] = c) - 1
AllDigits(s) == \A i \in 1..Len(s) : IsDigit(s[i])

RECURSIVE Number(_)
Number(s) ==
    IF s = <<>> THEN 0
    ELSE 10 * Number(SubSeq(s, 1, Len(s) - 1)) + DigitValue(s[Len(s)])

DaysIn(month, year) ==
    IF month = 2
    THEN (IF year % 4 = 0 /\ (year % 100 # 0 \/ year % 400 = 0) THEN 29 ELSE 28)
    ELSE IF month \in {4, 6, 9, 11} THEN 30 ELSE 31

\* the %d and %m directives: one or two digits, or a blank and one digit
DayOrMonthField(s) ==
    \/ Len(s) \in {1, 2} /\ AllDigits(s) /\ Number(s) >= 1
    \/ Len(s) = 2 /\ s[1] = " " /\ IsDigit(s[2]) /\ s[2] # "0"

FieldNumber(s) == IF s[1] = " " THEN Number(Tail(s)) ELSE Number(s)

\* datetime.strptime(text, '%d<sep>%m<sep>%Y') does not raise
ValidDate(text, sep) ==
    LET p == Split(text, sep)
    IN  /\ Len(p) = 3
        /\ DayOrMonthField(p[1]) /\ DayOrMonthField(p[2])
        /\ Len(p[3]) = 4 /\ AllDigits(p[3]) /\ Number(p[3]) >= 1
        /\ FieldNumber(p[2]) <= 12
        /\ FieldNumber(p[1]) <= DaysIn(FieldNumber(p[2]), Number(p[3]))

-----------------------------------------------------------------------------
(* Member and meeting handlers *)

\* TeamMemberDialog.on_ok sets a result for these entries
DialogAccepts(name_entry, join_date, birthday) ==
    /\ Strip(name_entry) # EmptyStr
    /\ ValidDate(Strip(join_date), "-")
    /\ ValidDate(Strip(birthday), "-")

\* add_team_member; the arguments are the entries of TeamMemberDialog when it
\* closes, `ok` whether it was closed with OK
AddTeamMember(ok, name_entry, job_title, join_date, birthday, sv) ==
    /\ running
    /\ IF ~ok \/ ~DialogAccepts(name_entry, join_date, birthday)
       THEN Rejects("cancelled")
       ELSE IF Has(team_members, Strip(name_entry)) THEN Rejects("error: member exists")
       ELSE LET tm == Put(team_members, Strip(name_entry),
                          NewMember(Strip(job_title), Strip(join_date), Strip(birthday)))
                w == RefreshMemberDropdown(tm, subskills_data, category_vars,
                         subskill_vars, cat_values, sub_values)
            IN  /\ Len(team_members) < MaxMembers
                /\ team_members' = tm
                /\ Saves(DocOf(tm, skills_data, subskills_data, meetings), sv)
                /\ member_var' = w.member_var
                /\ SetWidgets(w)
                /\ UNCHANGED meeting_widgets
                /\ listboxes' = w.listboxes
                /\ goals_text' = w.goals_text
                /\ msg' = "member added"
                /\ UNCHANGED <<running, skills_data, subskills_data, categories,
                               meetings>> /\ Quiet

\* add_skill_to_member(skill_type, *args); `args` are the values of the
\* variables passed: (category, subskill) or (skill,)
AddSkillToMemberCall(st, args, sv) ==
    /\ running
    /\ IF member_var = EmptyStr THEN Rejects("error: select a member")
       ELSE LET key == SkillKey(st)
                m == Get(team_members, member_var)
            IN  IF st \in SkillTypes
                THEN LET category == args[1]
                         subskill == args[2]
                         skill == SkillString(category, subskill)
                     IN  IF category = EmptyStr \/ subskill = EmptyStr
                         THEN Rejects("error: select a category and subskill")
                         ELSE IF InList(skill, m[key].flat) THEN Rejects("already assigned")
                         ELSE LET tm_list == Append(m[key].flat, skill)
                                  tm == Put(team_members, member_var,
                                            [m EXCEPT ![key].flat = tm_list])
                              IN  /\ Len(m[key].flat) < MaxAssigned
                                  /\ team_members' = tm
                                  /\ Saves(DocOf(tm, skills_data, subskills_data,
                                                 meetings), sv)
                                  /\ UNCHANGED meeting_widgets
                                  /\ listboxes' = [listboxes EXCEPT ![key] = tm_list]
                                  /\ msg' = "skill added"
                                  /\ UNCHANGED <<running, skills_data, subskills_data,
                                                 categories, meetings, widgets,
                                                 goals_text>>
                                  /\ Quiet
                \* skill_var, = args
                ELSE IF Len(args) # 1 THEN Rejects("ValueError")
                ELSE IF args[1] = EmptyStr THEN Rejects("error: select a skill")
                ELSE LET skill_list == IF st = Certifications THEN m.certifications
                                       ELSE Items(m[key])
                     IN  IF InList(args[1], skill_list) THEN Rejects("already assigned")
                         ELSE IF st # Certifications /\ m[key].isdict
                              THEN Rejects("AttributeError")
                         ELSE LET tm_list == Append(skill_list, args[1])
                                  tm == Put(team_members, member_var,
                                            IF st = Certifications
                                            THEN [m EXCEPT !.certifications = tm_list]
                                            ELSE [m EXCEPT ![key].flat = tm_list])
                              IN  /\ Len(skill_list) < MaxAssigned
                                  /\ team_members' = tm
                                  /\ Saves(DocOf(tm, skills_data, subskills_data,
                                                 meetings), sv)
                                  /\ UNCHANGED meeting_widgets
                                  /\ listboxes' = IF st = Certifications
                                                  THEN [listboxes EXCEPT ![key] = tm_list]
                                                  ELSE listboxes
                                  /\ msg' = "skill added"
                                  /\ UNCHANGED <<running, skills_data, subskills_data,
                                                 categories, meetings, widgets,
                                                 goals_text>>
                                  /\ Quiet

\* the variables an Add button passes (create_skill_section): category and
\* subskill for the families it lists as hierarchical, one variable for
\* Certifications; only the variables of the management sections are ever set
AddButtonArgs(st) ==
    IF st \in SkillTypes THEN <<category_vars[st], subskill_vars[st]>>
    ELSE IF st = SoftwareSkills THEN <<EmptyStr, EmptyStr>>
    ELSE <<EmptyStr>>

\* add_skill_to_member, as bound to the Add buttons of the member details tab
AddSkillToMember(st, sv) == AddSkillToMemberCall(st, AddButtonArgs(st), sv)

\* add_meeting
AddMeeting(date_str, title, sv) ==
    /\ running
    /\ IF ~ValidDate(date_str, "/") THEN Rejects("error: invalid date")
       ELSE LET mt == Append(meetings, Meeting(date_str, title))
            IN  /\ Len(meetings) < MaxMeetings
                /\ meetings' = mt
                /\ Saves(DocOf(team_members, skills_data, subskills_data, mt), sv)
                /\ meetings_listbox' = RefreshMeetingsList(mt)
                /\ msg' = "meeting added"
                /\ UNCHANGED <<running, team_members, skills_data, subskills_data,
                               categories, widgets, listboxes, goals_text,
                               meeting_entries>> /\ Quiet

-----------------------------------------------------------------------------
(* A session on the Technical Skills section, every write succeeding *)

DateDash == <<"0", "1", "-", "0", "2", "-", "2", "0", "2", "4">>

\* the document a session may start from besides no file at all
SessionDocument ==
    [team_members |-> <<>>, skills_data |-> StoredSkills,
     subskills_data |-> StoredTaxonomy, meetings |-> <<>>]

SessionFiles == {Missing, DocFile(SessionDocument, DocKeys)}

\* what the user enters for a category name: cancelled, plain, padded
CategoryAnswers == {EmptyStr, CatA, CatB, <<"b", " ">>}
SubskillAnswers == {SubX, <<" ", "x">>}
\* what the user enters in the prompt loop before cancelling
PromptAnswers == SeqsUpTo(SubskillAnswers, MaxSubskills)

\* texts of the subskill entry: blank, separators only, padded, repeated
BulkTexts ==
    {EmptyStr, <<" ">>, <<",">>, <<"x">>, <<" ", "y", ",">>, <<"x", ",", "y">>,
     <<"y", ",", "y">>, <<"y", ",", " ", "x">>}

CsvLines ==
    {<<"T", "\t", "a", "\t", "x">>, <<"T", ",", "a", ",", " ", "y">>,
     <<"T", ",", "a">>}
CsvFiles == SeqsUpTo(CsvLines, MaxCsvRows)

InitTax == \E f \in SessionFiles : Off(DiskWith(f))

NextTax ==
    \/ Startup
    \/ \E c \in {CatA, CatB} : SelectCategory(TechnicalSkills, c)
    \/ \E sub \in {SubX, SubY} : SelectSubskill(TechnicalSkills, sub)
    \/ AddCategory(TechnicalSkills, EmptyStr, <<>>, <<>>, <<>>)
    \/ \E answer \in CategoryAnswers \ {EmptyStr}, answers \in PromptAnswers :
           AddCategory(TechnicalSkills, answer, answers, <<>>, <<>>)
    \/ \E entry \in BulkTexts : AddMultipleSubskills(TechnicalSkills, entry, <<>>)
    \/ \E answer \in SubskillAnswers \cup {EmptyStr} :
           AddHierarchicalSkill(TechnicalSkills, answer, <<>>, <<>>)
    \/ \E yes \in BOOLEAN : DeleteSubskill(TechnicalSkills, yes, <<>>)
    \/ \E yes \in BOOLEAN : DeleteCategory(TechnicalSkills, yes, <<>>)
    \/ UploadSkillsCsv(FALSE, <<>>, <<>>)
    \/ \E lines \in CsvFiles : UploadSkillsCsv(TRUE, lines, <<>>)

SpecTax == InitTax /\ [][NextTax]_vars

-----------------------------------------------------------------------------
(* A session on the team, certification and meeting handlers and the Soft
   Skills section, where a write may fail *)

SaveScripts == AlwaysSaves \cup FailingSaves
\* every write succeeds, or the write fails and the user declines to retry
FewSaveScripts == AlwaysSaves \cup {<<[fail |-> "write", retry |-> NoRetry]>>}

CertificationAnswers == {EmptyStr, <<"c">>, <<" ", "d">>}
MeetingDates == {Date1, DateDash}

InitSave == \E f \in SessionFiles : Off(DiskWith(f))

NextSave ==
    \/ Startup
    \/ \E ok \in BOOLEAN, join_date \in {DateDash, Date1}, sv \in FewSaveScripts :
           AddTeamMember(ok, NameM, Title1, join_date, DateDash, sv)
    \/ \E st \in SkillTypes \cup {Certifications}, sv \in FewSaveScripts :
           AddSkillToMember(st, sv)
    \/ \E sv \in FewSaveScripts : AddHierarchicalSkill(TechnicalSkills, SubY, <<>>, sv)
    \/ \E answer \in CertificationAnswers, sv \in SaveScripts : AddCertification(answer, sv)
    \/ \E date_str \in MeetingDates, sv \in FewSaveScripts : AddMeeting(date_str, Title1, sv)
    \/ \E sv \in FewSaveScripts : AddCategory(SoftSkills, CatA, <<SubX>>, sv, <<>>)

SpecSave == InitSave /\ [][NextSave]_vars

-----------------------------------------------------------------------------
(* Member selection and the certification catalog *)

\* <<ComboboxSelected>> on the member dropdown: load_member_data, which ends
\* with populate_category_dropdowns
SelectMember(name) ==
    /\ running
    /\ Has(team_members, name)
    /\ LET p == [st \in SkillTypes |->
                    PopulateCategoryDropdown(subskills_data, st, subskill_vars[st])]
           d == LoadMemberData(team_members, name)
       IN  /\ member_var' = name
           /\ category_vars' = [st \in SkillTypes |-> p[st].var]
           /\ subskill_vars' = [st \in SkillTypes |-> p[st].subvar]
           /\ cat_values' = [st \in SkillTypes |-> p[st].values]
           /\ sub_values' = [st \in SkillTypes |-> p[st].subvalues]
           /\ UNCHANGED meeting_widgets
           /\ listboxes' = d.listboxes
           /\ goals_text' = d.goals_text
    /\ msg' = "selected"
    /\ UNCHANGED <<running, disk, data_file, stores, unsaved>> /\ Quiet

\* [listbox.get(i) for i in listbox.curselection()]
RECURSIVE Selected(_, _, _)
Selected(list, selection, i) ==
    IF i > Len(list) THEN <<>>
    ELSE (IF i \in selection THEN <<list[i]>> ELSE <<>>)
         \o Selected(list, selection, i + 1)

\* the loop of remove_certification: list.remove(cert), ValueError swallowed
RECURSIVE RemoveEach(_, _)
RemoveEach(list, certs_to_remove) ==
    IF certs_to_remove = <<>> THEN list
    ELSE RemoveEach(IF InList(Head(certs_to_remove), list)
                    THEN RemoveFirst(list, Head(certs_to_remove)) ELSE list,
                    Tail(certs_to_remove))

\* remove_certification; `selection` is certifications_listbox.curselection()
RemoveCertification(selection, yes, sv) ==
    /\ running
    /\ selection \subseteq 1..Len(listboxes.certifications)
    /\ IF selection = {} THEN Rejects("error: select a certification")
       ELSE IF ~yes THEN Rejects("cancelled")
       ELSE LET certs_to_remove == Selected(listboxes.certifications, selection, 1)
                sk == [skills_data EXCEPT !.certs = RemoveEach(@, certs_to_remove)]
            IN  /\ skills_data' = sk
                /\ Saves(DocOf(team_members, sk, subskills_data, meetings), sv)
                /\ UNCHANGED meeting_widgets
                /\ listboxes' = [listboxes EXCEPT !.certifications = sk.certs]
                /\ msg' = "certifications deleted"
                /\ UNCHANGED <<running, team_members, subskills_data, categories,
                               meetings, widgets, goals_text>> /\ Quiet

\* list.index(x)
IndexOf(list, x) ==
    CHOOSE j \in 1..Len(list) : list[j] = x /\ \A h \in 1..(j - 1) : list[h] # x

\* a rename that does not look the new name up in the catalog
ModifyCertificationNoCheck(selection, answer, sv) ==
    /\ running
    /\ selection \subseteq 1..Len(listboxes.certifications)
    /\ IF selection = {} THEN Rejects("error: select a certification")
       ELSE LET old_cert == Selected(listboxes.certifications, selection, 1)[1]
                new_cert == Strip(answer)
            IN  IF answer = EmptyStr THEN Rejects("cancelled")
                ELSE IF ~InList(old_cert, skills_data.certs) THEN Rejects("ValueError")
                ELSE LET sk == [skills_data EXCEPT
                                   !.certs[IndexOf(skills_data.certs, old_cert)] = new_cert]
                     IN  /\ skills_data' = sk
                         /\ Saves(DocOf(team_members, sk, subskills_data, meetings), sv)
                         /\ UNCHANGED meeting_widgets
                         /\ listboxes' = [listboxes EXCEPT !.certifications = sk.certs]
                         /\ msg' = "certification renamed"
                         /\ UNCHANGED <<running, team_members, subskills_data,
                                        categories, meetings, widgets, goals_text>>
                         /\ Quiet

\* modify_certification; `selection` is certifications_listbox.curselection(),
\* `answer` the text of the dialog
ModifyCertification(selection, answer, sv) ==
    /\ running
    /\ selection \subseteq 1..Len(listboxes.certifications)
    /\ IF selection = {} THEN Rejects("error: select a certification")
       ELSE LET old_cert == Selected(listboxes.certifications, selection, 1)[1]
                new_cert == Strip(answer)
            IN  IF answer = EmptyStr THEN Rejects("cancelled")
                ELSE IF InList(new_cert, skills_data.certs)
                     THEN Rejects("error: certification exists")
                ELSE IF ~InList(old_cert, skills_data.certs) THEN Rejects("ValueError")
                ELSE LET sk == [skills_data EXCEPT
                                   !.certs[IndexOf(skills_data.certs, old_cert)] = new_cert]
                     IN  /\ skills_data' = sk
                         /\ Saves(DocOf(team_members, sk, subskills_data, meetings), sv)
                         /\ UNCHANGED meeting_widgets
                         /\ listboxes' = [listboxes EXCEPT !.certifications = sk.certs]
                         /\ msg' = "certification renamed"
                         /\ UNCHANGED <<running, team_members, subskills_data,
                                        categories, meetings, widgets, goals_text>>
                         /\ Quiet

-----------------------------------------------------------------------------
(* A session on the certification catalog, every write succeeding *)

CertQ == <<"q">>
Blank == <<" ">>

\* a stored member holding a certification, the catalog empty
CertDocument ==
    [EmptyData EXCEPT
        !.team_members =
            <<[k |-> NameM,
               v |-> [NewMember(Title1, DateDash, DateDash) EXCEPT
                         !.certifications = <<CertQ>>]]>>]

CertFiles == {Missing, DocFile(CertDocument, DocKeys)}
CatalogAnswers == {EmptyStr, Blank, <<"c">>, <<" ", "d">>}
RenameAnswers == {EmptyStr, Blank, <<"c">>, <<"d", " ">>, CertQ}
Selections == SUBSET (1..MaxCerts)

InitCert == \E f \in CertFiles : Off(DiskWith(f))

NextCert ==
    \/ Startup
    \/ \E name \in {NameM} : SelectMember(name)
    \/ \E answer \in CatalogAnswers : AddCertification(answer, <<>>)
    \/ \E selection \in Selections, yes \in BOOLEAN :
           RemoveCertification(selection, yes, <<>>)
    \/ \E selection \in Selections, answer \in RenameAnswers :
           ModifyCertification(selection, answer, <<>>)
    \/ \E lines \in {<<<<"T", ",", ",", "x">>>>} : UploadSkillsCsv(TRUE, lines, <<>>)
    \/ \E answer \in {Blank} : AddCategory(TechnicalSkills, answer, <<>>, <<>>, <<>>)

SpecCert == InitCert /\ [][NextCert]_vars

-----------------------------------------------------------------------------
(* Renaming a team member *)

\* the fields modify_team_member takes from the dialog
WithDialogFields(member, job_title, join_date, birthday) ==
    [member EXCEPT !.job_title = Strip(job_title), !.join_date = Strip(join_date),
                   !.birthday = Strip(birthday)]

\* a rename that does not look the new name up in the registry
ModifyTeamMemberNoCheck(selected, ok, name_entry, job_title, join_date, birthday, sv) ==
    /\ running
    /\ selected # <<>> => Has(team_members, selected[1])
    /\ IF selected = <<>> THEN Rejects("error: select a member")
       ELSE IF ~ok \/ ~DialogAccepts(name_entry, join_date, birthday)
            THEN Rejects("cancelled")
       ELSE LET name == selected[1]
                new_name == Strip(name_entry)
                moved == IF new_name # name
                         THEN Put(Del(team_members, name), new_name,
                                  Get(team_members, name))
                         ELSE team_members
                tm == Put(moved, new_name,
                          WithDialogFields(Get(moved, new_name), job_title, join_date,
                                           birthday))
                w == RefreshMemberDropdown(tm, subskills_data, category_vars,
                         subskill_vars, cat_values, sub_values)
            IN  /\ team_members' = tm
                /\ Saves(DocOf(tm, skills_data, subskills_data, meetings), sv)
                /\ member_var' = w.member_var
                /\ SetWidgets(w)
                /\ UNCHANGED meeting_widgets
                /\ listboxes' = w.listboxes
                /\ goals_text' = w.goals_text
                /\ msg' = "member updated"
                /\ UNCHANGED <<running, skills_data, subskills_data, categories,
                               meetings>> /\ Quiet

\* a rename that files a new record under the new name
ModifyTeamMemberFresh(selected, ok, name_entry, job_title, join_date, birthday, sv) ==
    /\ running
    /\ selected # <<>> => Has(team_members, selected[1])
    /\ IF selected = <<>> THEN Rejects("error: select a member")
       ELSE IF ~ok \/ ~DialogAccepts(name_entry, join_date, birthday)
            THEN Rejects("cancelled")
       ELSE LET name == selected[1]
                new_name == Strip(name_entry)
            IN  IF new_name # name /\ Has(team_members, new_name)
                THEN Rejects("error: member exists")
                ELSE LET tm == Put(Del(team_members, name), new_name,
                                   NewMember(Strip(job_title), Strip(join_date),
                                             Strip(birthday)))
                         w == RefreshMemberDropdown(tm, subskills_data, category_vars,
                                  subskill_vars, cat_values, sub_values)
                     IN  /\ team_members' = tm
                         /\ Saves(DocOf(tm, skills_data, subskills_data, meetings), sv)
                         /\ member_var' = w.member_var
                         /\ SetWidgets(w)
                         /\ UNCHANGED meeting_widgets
                         /\ listboxes' = w.listboxes
                         /\ goals_text' = w.goals_text
                         /\ msg' = "member updated"
                         /\ UNCHANGED <<running, skills_data, subskills_data,
                                        categories, meetings>> /\ Quiet

\* modify_team_member; `selected` is self.team_tree.selection() as names, the
\* other arguments are the entries of TeamMemberDialog when it closes
ModifyTeamMember(selected, ok, name_entry, job_title, join_date, birthday, sv) ==
    /\ running
    /\ selected # <<>> => Has(team_members, selected[1])
    /\ IF selected = <<>> THEN Rejects("error: select a member")
       ELSE IF ~ok \/ ~DialogAccepts(name_entry, join_date, birthday)
            THEN Rejects("cancelled")
       ELSE LET name == selected[1]
                new_name == Strip(name_entry)
            IN  IF new_name # name /\ Has(team_members, new_name)
                THEN Rejects("error: member exists")
                ELSE LET moved == IF new_name # name
                                  THEN Put(Del(team_members, name), new_name,
                                           Get(team_members, name))
                                  ELSE team_members
                         tm == Put(moved, new_name,
                                   WithDialogFields(Get(moved, new_name), job_title,
                                                    join_date, birthday))
                         w == RefreshMemberDropdown(tm, subskills_data, category_vars,
                                  subskill_vars, cat_values, sub_values)
                     IN  /\ team_members' = tm
                         /\ Saves(DocOf(tm, skills_data, subskills_data, meetings), sv)
                         /\ member_var' = w.member_var
                         /\ SetWidgets(w)
                         /\ UNCHANGED meeting_widgets
                         /\ listboxes' = w.listboxes
                         /\ goals_text' = w.goals_text
                         /\ msg' = "member updated"
                         /\ UNCHANGED <<running, skills_data, subskills_data,
                                        categories, meetings>> /\ Quiet

-----------------------------------------------------------------------------
(* A session on the team and the skills of its members, every write
   succeeding *)

NameO == <<"o">>
Title2 == <<"u">>
Hobby == <<"h">>

\* a stored team: m holds an assigned skill, a certification and a hobby
TeamDocument ==
    [team_members |->
        <<[k |-> NameM,
           v |-> [NewMember(Title1, DateDash, DateDash) EXCEPT
                     !.technical_skills = FlatList(<<SkillString(CatA, SubX)>>),
                     !.certifications = <<CertQ>>,
                     !.hobbies = <<Hobby>>]],
          [k |-> NameN, v |-> NewMember(Title2, DateDash, DateDash)]>>,
     skills_data |-> StoredSkills,
     subskills_data |-> StoredTaxonomy,
     meetings |-> <<Meeting(Date1, Title1)>>]

TeamFiles == {Missing, DocFile(TeamDocument, DocKeys)}
TeamNames == {NameM, NameN, NameO}
NameEntries == {NameM, <<" ", "n">>, NameO}
TreeSelections == {<<>>} \cup {<<name>> : name \in TeamNames}

InitTeam == \E f \in TeamFiles : Off(DiskWith(f))

NextTeam ==
    \/ Startup
    \/ \E name \in TeamNames : SelectMember(name)
    \/ \E ok \in BOOLEAN, name_entry \in NameEntries :
           AddTeamMember(ok, name_entry, Title1, DateDash, DateDash, <<>>)
    \/ \E selected \in TreeSelections, name_entry \in NameEntries,
          join_date \in {DateDash, Date1} :
           ModifyTeamMember(selected, TRUE, name_entry, Title2, join_date, DateDash, <<>>)
    \/ AddCategory(TechnicalSkills, CatA, <<SubX>>, <<>>, <<>>)
    \/ \E st \in SkillTypes \cup {SoftwareSkills, Certifications} :
           AddSkillToMember(st, <<>>)
    \/ AddSkillToMemberCall(SoftwareSkills, <<CatA, SubX>>, <<>>)
    \/ \E yes \in BOOLEAN : DeleteCategory(TechnicalSkills, yes, <<>>)

SpecTeam == InitTeam /\ [][NextTeam]_vars

-----------------------------------------------------------------------------
(* Goals and the Update button of the member details tab *)

\* the user types into self.goals_text
EditGoals(text) ==
    /\ running
    /\ UNCHANGED meeting_widgets
    /\ goals_text' = text
    /\ msg' = "typed"
    /\ UNCHANGED <<running, disk, data_file, stores, widgets, listboxes, unsaved>>
    /\ Quiet

\* the lines a Text widget shows for its content
TextLines(text) == Split(text, "\n")

\* list.pop(i), the list that is left (i counted from 1)
Without(list, i) == SubSeq(list, 1, i - 1) \o SubSeq(list, i + 1, Len(list))

\* move_goal_to_achievement; `line_num` is the line of goals_text that was
\* double-clicked
MoveGoalToAchievement(line_num, sv) ==
    /\ running
    /\ line_num \in 1..Len(TextLines(goals_text))
    /\ LET goals == Split(Strip(goals_text \o <<"\n">>), "\n")
       IN  IF ~(1 <= line_num /\ line_num <= Len(goals)) THEN Rejects("nothing moved")
           ELSE IF ~Has(team_members, member_var)
                \* {}['achievements'] raises KeyError after the widget was rewritten
                THEN /\ UNCHANGED meeting_widgets
                     /\ goals_text' = Join(Without(goals, line_num), "\n")
                     /\ msg' = "error: move failed"
                     /\ UNCHANGED <<running, disk, data_file, stores, widgets,
                                    listboxes, unsaved>> /\ Quiet
           ELSE LET m == Get(team_members, member_var)
                    tm == Put(team_members, member_var,
                              [m EXCEPT !.achievements = Append(@, goals[line_num])])
                IN  /\ Len(m.achievements) < MaxAchievements
                    /\ UNCHANGED meeting_widgets
                    /\ goals_text' = Join(Without(goals, line_num), "\n")
                    /\ team_members' = tm
                    /\ Saves(DocOf(tm, skills_data, subskills_data, meetings), sv)
                    /\ msg' = "goal achieved"
                    /\ UNCHANGED <<running, skills_data, subskills_data, categories,
                                   meetings, widgets, listboxes>> /\ Quiet

\* update_team_member; the arguments are the texts of the entries it reads.
\* The loop over the four families assigns technical_skills and soft_skills
\* from their listboxes and raises AttributeError on software_skills_listbox,
\* which is None: the assignments of the entries and save_data are not reached
UpdateTeamMember(job_title, join_date, birthday, hobbies_entry) ==
    /\ running
    /\ IF ~Has(team_members, member_var) THEN Rejects("error: select a member")
       ELSE IF ~ValidDate(Strip(join_date), "/") \/ ~ValidDate(Strip(birthday), "/")
            THEN Rejects("error: invalid date")
       ELSE LET m == Get(team_members, member_var)
                tm == Put(team_members, member_var,
                          [m EXCEPT
                              !.technical_skills = FlatList(listboxes.technical_skills),
                              !.soft_skills = FlatList(listboxes.soft_skills)])
            IN  /\ team_members' = tm
                /\ NoSave(tm # team_members)
                /\ msg' = "AttributeError"
                /\ UNCHANGED <<running, skills_data, subskills_data, categories,
                               meetings, widgets, details>> /\ Quiet

-----------------------------------------------------------------------------
(* A session on the goals of the members, every write succeeding *)

Goal1 == <<"g">>
Goal2 == <<"k">>

\* a stored team: m has two goals, n has none
GoalsDocument ==
    [EmptyData EXCEPT
        !.team_members =
            <<[k |-> NameM,
               v |-> [NewMember(Title1, DateDash, DateDash) EXCEPT
                         !.goals = <<Goal1, Goal2>>,
                         !.technical_skills = FlatList(<<SkillString(CatA, SubX)>>)]],
              [k |-> NameN, v |-> NewMember(Title2, DateDash, DateDash)]>>]

GoalsFiles == {Missing, DocFile(GoalsDocument, DocKeys)}
GoalTexts == {<<"g", "\n">>, <<"k">>}
GoalLines == 1..3
EntryDates == {Date1, DateDash}
HobbyEntries == {EmptyStr, <<"h", ",", " ", "i">>}

InitGoals == \E f \in GoalsFiles : Off(DiskWith(f))

NextGoals ==
    \/ Startup
    \/ \E name \in {NameM, NameN} : SelectMember(name)
    \/ \E text \in GoalTexts : EditGoals(text)
    \/ \E line_num \in GoalLines : MoveGoalToAchievement(line_num, <<>>)
    \/ \E job_title \in {Title1, Title2}, join_date \in EntryDates,
          hobbies_entry \in HobbyEntries :
           UpdateTeamMember(job_title, join_date, Date1, hobbies_entry)

SpecGoals == InitGoals /\ [][NextGoals]_vars

-----------------------------------------------------------------------------
(* The meetings tab: on_meeting_select, update_meeting, delete_meeting *)

\* on_meeting_select with the item at position pos selected (0: no selection);
\* the position indexes self.meetings
OnMeetingSelect(pos) ==
    /\ running
    /\ pos \in 0..Len(meetings_listbox)
    /\ IF pos = 0 THEN Rejects("")
       ELSE IF pos <= Len(meetings)
       THEN /\ meeting_entries' = [date |-> meetings[pos].date,
                                   title |-> meetings[pos].title]
            /\ msg' = ""
            /\ UNCHANGED <<running, disk, data_file, stores, widgets, listboxes,
                           goals_text, meetings_listbox, unsaved>> /\ Quiet
       ELSE /\ meetings_listbox' = RefreshMeetingsList(meetings)
            /\ msg' = "error: meeting not found"
            /\ UNCHANGED <<running, disk, data_file, stores, widgets, listboxes,
                           goals_text, meeting_entries, unsaved>> /\ Quiet

\* update_meeting that replaces nothing when the index is out of range
UpdateMeetingNoRaise(pos, date_str, title, sv) ==
    /\ running
    /\ pos \in 0..Len(meetings_listbox)
    /\ IF pos = 0 THEN Rejects("error: select a meeting")
       ELSE IF ~ValidDate(date_str, "/") THEN Rejects("error: invalid date")
       ELSE LET mt == IF pos > Len(meetings) THEN meetings
                      ELSE [meetings EXCEPT ![pos] = Meeting(date_str, title)]
            IN  /\ meetings' = mt
                /\ Saves(DocOf(team_members, skills_data, subskills_data, mt), sv)
                /\ meetings_listbox' = RefreshMeetingsList(mt)
                /\ msg' = "meeting updated"
                /\ UNCHANGED <<running, team_members, skills_data, subskills_data,
                               categories, widgets, listboxes, goals_text,
                               meeting_entries>> /\ Quiet

\* update_meeting with the item at position pos selected and date_str, title
\* in the entries
UpdateMeeting(pos, date_str, title, sv) ==
    /\ running
    /\ pos \in 0..Len(meetings_listbox)
    /\ IF pos = 0 THEN Rejects("error: select a meeting")
       ELSE IF ~ValidDate(date_str, "/") THEN Rejects("error: invalid date")
       ELSE IF pos > Len(meetings) THEN Rejects("error: index")
       ELSE LET mt == [meetings EXCEPT ![pos] = Meeting(date_str, title)]
            IN  /\ meetings' = mt
                /\ Saves(DocOf(team_members, skills_data, subskills_data, mt), sv)
                /\ meetings_listbox' = RefreshMeetingsList(mt)
                /\ msg' = "meeting updated"
                /\ UNCHANGED <<running, team_members, skills_data, subskills_data,
                               categories, widgets, listboxes, goals_text,
                               meeting_entries>> /\ Quiet

\* delete_meeting with the item at position pos selected and the answer to
\* the confirmation
DeleteMeeting(pos, yes, sv) ==
    /\ running
    /\ pos \in 0..Len(meetings_listbox)
    /\ IF pos = 0 THEN Rejects("error: select a meeting")
       ELSE IF ~yes THEN Rejects("")
       ELSE IF pos > Len(meetings) THEN Rejects("error: index")
       ELSE LET mt == Without(meetings, pos)
            IN  /\ meetings' = mt
                /\ Saves(DocOf(team_members, skills_data, subskills_data, mt), sv)
                /\ meetings_listbox' = RefreshMeetingsList(mt)
                /\ msg' = "meeting deleted"
                /\ UNCHANGED <<running, team_members, skills_data, subskills_data,
                               categories, widgets, listboxes, goals_text,
                               meeting_entries>> /\ Quiet

-----------------------------------------------------------------------------
(* A session on the meetings tab *)

\* 2 January 2024, which as a string is greater than Date1, 1 February 2024
Date2 == <<"0", "2", "/", "0", "1", "/", "2", "0", "2", "4">>

MeetDocument ==
    [EmptyData EXCEPT !.meetings = <<Meeting(Date1, Title1), Meeting(Date2, Title2)>>]

MeetFiles == {Missing, DocFile(MeetDocument, DocKeys)}

EntryTexts == {Date1, Date2, DateDash}

MeetingTitles == {Title1, Title2}

Positions == 0..MaxMeetings

InitMeet == \E f \in MeetFiles : Off(DiskWith(f))

NextMeet ==
    \/ Startup
    \/ CloseApp
    \/ \E date_str \in EntryTexts, title \in MeetingTitles, sv \in FewSaveScripts :
           AddMeeting(date_str, title, sv)
    \/ \E pos \in Positions : OnMeetingSelect(pos)
    \/ \E pos \in Positions, date_str \in EntryTexts, title \in MeetingTitles,
          sv \in FewSaveScripts : UpdateMeeting(pos, date_str, title, sv)
    \/ \E pos \in Positions, yes \in BOOLEAN, sv \in FewSaveScripts :
           DeleteMeeting(pos, yes, sv)

SpecMeet == InitMeet /\ [][NextMeet]_vars

-----------------------------------------------------------------------------
(* A session of CSV imports *)

\* the lines of CsvLines and a row for a category that the taxonomy lacks
ImportLines == CsvLines \cup {<<"q", "\t", "b", "\t", "x">>}

ImportFiles == SeqsUpTo(ImportLines, MaxCsvRows)

InitCsv == \E f \in SessionFiles : Off(DiskWith(f))

NextCsv ==
    \/ Startup
    \/ CloseApp
    \/ \E answers \in {<<>>, <<SubY>>} :
           AddCategory(TechnicalSkills, CatA, answers, <<>>, <<>>)
    \/ UploadSkillsCsv(FALSE, <<>>, <<>>)
    \/ \E lines \in ImportFiles, sv \in FewSaveScripts : UploadSkillsCsv(TRUE, lines, sv)

SpecCsv == InitCsv /\ [][NextCsv]_vars

-----------------------------------------------------------------------------
(* A session of saves that fail *)

InitFail == \E f \in MeetFiles : Off(DiskWith(f))

NextFail ==
    \/ Startup
    \/ CloseApp
    \/ \E date_str \in EntryTexts, sv \in SaveScripts : AddMeeting(date_str, Title1, sv)
    \/ \E yes \in BOOLEAN, sv \in SaveScripts : DeleteMeeting(1, yes, sv)

SpecFail == InitFail /\ [][NextFail]_vars

-----------------------------------------------------------------------------
(* The achieved goals text of load_member_data *)

\* member.get('achieved_goals', [])
AchievedGoals(member) ==
    IF "achieved_goals" \in DOMAIN member THEN member.achieved_goals ELSE <<>>

\* what load_member_data puts into self.achieved_goals_text for the member
AchievedGoalsText(member) == Join(AchievedGoals(member), "\n")

-----------------------------------------------------------------------------
(* Claims about load_data and construction, under SpecLoad *)

StoredFile == disk[DefaultPath]
SkillFields == {"technical_skills", "soft_skills", "software_skills"}

\* C2: after startup on a well-formed document the in-memory registry,
\* taxonomy and meeting log equal the document's contents (so that the next
\* save writes every stored meeting back).
StartupKeepsDocument ==
    (running /\ StoredFile.kind = "doc" /\ StoredFile.keys = DocKeys) =>
        /\ Keys(team_members) = Keys(StoredFile.doc.team_members)
        /\ skills_data = StoredFile.doc.skills_data
        /\ subskills_data = StoredFile.doc.subskills_data
        /\ meetings = StoredFile.doc.meetings

\* the number of skills held by the first i - 1 categories of a nested map
RECURSIVE SkillsBefore(_, _)
SkillsBefore(d, i) == IF i <= 1 THEN 0 ELSE Len(d[i - 1].v) + SkillsBefore(d, i - 1)

\* l holds, category by category in stored order and skill by skill in stored
\* order, exactly one "category: skill" string per skill of d
IsFlatListOf(d, l) ==
    /\ Len(l) = SkillsBefore(d, Len(d) + 1)
    /\ \A i \in 1..Len(d) : \A j \in 1..Len(d[i].v) :
           l[SkillsBefore(d, i) + j] = d[i].k \o <<":", " ">> \o d[i].v[j]

NoLegacyFieldAfterLoad ==
    running => \A i \in 1..Len(team_members) :
                   \A f \in SkillFields : ~team_members[i].v[f].isdict

-----------------------------------------------------------------------------
(* Claims about the skills management tab, under SpecTax *)

\* the stores a construction holds after load_data has read `content`;
\* load_data assigns nothing to self.categories
AfterLoad(content) ==
    [stores |-> LoadData(content), categories |-> InitialCategories]

\* C1: in every state the handlers reach, saving and then loading gives back
\* equal stores: the member registry, the certification catalog, the meeting
\* log and every family's categories with their subskill sequences
SaveThenLoadReproduces ==
    running =>
        LET written == SaveData(disk, data_file, Document, <<>>)
            back == AfterLoad(written.disk[written.data_file])
        IN  /\ back.stores.team_members = team_members
            /\ back.stores.skills_data = skills_data
            /\ back.stores.subskills_data = subskills_data
            /\ back.stores.meetings = meetings
            /\ back.categories = categories

\* C3: while the application is idle no change of the in-memory stores is
\* left without a save after it (every write succeeding)
NothingLeftUnsaved == running => ~unsaved

Count(x, list) == Cardinality({i \in 1..Len(list) : list[i] = x})

\* C8: add_category with a name not yet in the family lists the name exactly
\* once, holding nothing but what the prompt loop entered (nothing when the
\* loop is cancelled at once) and leaving every other category as it was;
\* with a name already in the family it is rejected and no category of any
\* family changes
AddCategoryOnceOrRejected ==
    [][\A st \in SkillTypes, answer \in CategoryAnswers \ {EmptyStr},
          answers \in PromptAnswers :
          (/\ msg' \in {"category added", "error: category exists"}
           /\ AddCategory(st, answer, answers, <<>>, <<>>)) =>
              LET name == Strip(answer)
                  before == Get(categories, st)
                  after == Get(categories', st)
              IN  IF Has(before, name)
                  THEN /\ msg' = "error: category exists"
                       /\ categories' = categories
                  ELSE /\ Count(name, Keys(after)) = 1
                       /\ Count(name, cat_values'[st]) = 1
                       /\ answers = <<>> => Get(after, name) = <<>>
                       /\ \A i \in 1..Len(Get(after, name)) :
                              \E j \in 1..Len(answers) :
                                  Get(after, name)[i] = Strip(answers[j])
                       /\ \A i \in 1..Len(before) : after[i] = before[i]
                       /\ \A i \in 1..Len(categories) :
                              categories[i].k # st => categories'[i] = categories[i]]_vars

\* a second add_category with the name of a category that holds subskills,
\* next to another category, has just been rejected
AddCategoryRejectedWitness ==
    /\ msg = "error: category exists"
    /\ Len(Get(categories, TechnicalSkills)) = 2
    /\ \E i \in 1..2 : Get(categories, TechnicalSkills)[i].v # <<>>

NoRepeat(list) == \A i, j \in 1..Len(list) : list[i] = list[j] => i = j

\* C9: no category's subskill sequence holds a name twice, in either store
\* the handlers keep subskills in
UniqueSubskills ==
    /\ \A i \in 1..Len(categories) :
           \A j \in 1..Len(categories[i].v) : NoRepeat(categories[i].v[j].v)
    /\ \A st \in SkillTypes :
           \A j \in 1..Len(subskills_data[st]) : NoRepeat(subskills_data[st][j].v)

\* the prompt loop after add_category was given a subskill a second time
UniqueSubskillsWitness ==
    /\ msg = "category added"
    /\ warned > 0
    /\ \E i \in 1..Len(Get(categories, TechnicalSkills)) :
           Len(Get(categories, TechnicalSkills)[i].v) = 1

\* the subskills listed for a category: those of self.categories when it
\* knows the category, else those of self.subskills_data
Listed(cats, sd, st, category) ==
    IF Has(Get(cats, st), category) THEN Get(Get(cats, st), category)
    ELSE GetOr(sd[st], category, <<>>)

\* the tokens a bulk add has to append to `list`, in input order
RECURSIVE Fresh(_, _)
Fresh(list, tokens) ==
    IF tokens = <<>> THEN <<>>
    ELSE IF InList(Head(tokens), list) THEN Fresh(list, Tail(tokens))
         ELSE <<Head(tokens)>> \o Fresh(Append(list, Head(tokens)), Tail(tokens))

OneTaxonomy ==
    running => \A st \in SkillTypes : Get(categories, st) = subskills_data[st]

-----------------------------------------------------------------------------
(* Claims about save_data, under SpecSave *)

\* C4: at every moment the file at the data path, and at any path a save was
\* attempted on, is absent or holds a complete document, never a partial
\* one, also after a save whose write failed part-way
DataFileComplete == \A p \in Paths : disk[p].kind # "malformed"

-----------------------------------------------------------------------------
(* Claims about names, under SpecCert *)

\* no key of the dict and no entry of its lists is the empty string
NamedEntries(d) ==
    \A i \in 1..Len(d) :
        /\ d[i].k # EmptyStr
        /\ \A j \in 1..Len(d[i].v) : d[i].v[j] # EmptyStr

UniqueCertifications ==
    /\ []NoRepeat(skills_data.certs)
    /\ [][/\ \A answer \in CatalogAnswers :
                (InList(Strip(answer), skills_data.certs)
                 /\ AddCertification(answer, <<>>)) => skills_data' = skills_data
          /\ \A selection \in Selections, answer \in RenameAnswers :
                ModifyCertification(selection, answer, <<>>) =>
                    IF msg' = "certification renamed"
                    THEN /\ ~InList(Strip(answer), skills_data.certs)
                         /\ \E i \in 1..Len(skills_data.certs) :
                                /\ skills_data.certs[i] =
                                       Selected(listboxes.certifications, selection, 1)[1]
                                /\ skills_data'.certs =
                                       [skills_data.certs EXCEPT ![i] = Strip(answer)]
                    ELSE skills_data' = skills_data]_vars

\* a rename to a listed name was rejected on a full catalog
UniqueCertificationsWitness ==
    /\ msg = "error: certification exists"
    /\ Len(skills_data.certs) = MaxCerts
    /\ listboxes.certifications = skills_data.certs

-----------------------------------------------------------------------------
(* Claims about the team and assigned skills, under SpecTeam *)

\* C12: delete_category removes the selected category with its subskills
\* from the family's categories, keeps the other categories and families, and
\* changes no member record: the assigned "category: subskill" strings stay
DeleteCategoryKeepsMembers ==
    [][\A yes \in BOOLEAN :
          DeleteCategory(TechnicalSkills, yes, <<>>) =>
              /\ team_members' = team_members
              /\ msg' = "category deleted" =>
                    /\ Has(Get(categories, TechnicalSkills), category_vars[TechnicalSkills])
                    /\ Get(categories', TechnicalSkills) =
                           Del(Get(categories, TechnicalSkills),
                               category_vars[TechnicalSkills])
                    /\ \A i \in 1..Len(categories) :
                           categories[i].k # TechnicalSkills =>
                               categories'[i] = categories[i]
              /\ msg' # "category deleted" => categories' = categories]_vars

\* a member still holds "a: x" after category a was deleted
DeleteCategoryKeepsMembersWitness ==
    /\ msg = "category deleted"
    /\ ~Has(Get(categories, TechnicalSkills), CatA)
    /\ \E i \in 1..Len(team_members) :
           InList(SkillString(CatA, SubX), team_members[i].v.technical_skills.flat)

\* the record holds no skill, certification, goal, achievement, hobby or
\* interest
EmptyCollections(member) ==
    /\ member.technical_skills = FlatList(<<>>)
    /\ member.soft_skills = FlatList(<<>>)
    /\ member.software_skills = FlatList(<<>>)
    /\ member.certifications = <<>>
    /\ member.goals = <<>>
    /\ member.achievements = <<>>
    /\ member.hobbies = <<>>
    /\ member.interests = <<>>

\* C14: add_team_member with a name already present and modify_team_member
\* renaming to the name of another member change no member record and write
\* nothing; a successful add_team_member files a record with empty
\* collections under a name that was free, next to the unchanged old records
MemberNamesUnique ==
    [][/\ \A ok \in BOOLEAN, name_entry \in NameEntries :
             AddTeamMember(ok, name_entry, Title1, DateDash, DateDash, <<>>) =>
                 IF msg' = "member added"
                 THEN /\ ~Has(team_members, Strip(name_entry))
                      /\ Len(team_members') = Len(team_members) + 1
                      /\ \A i \in 1..Len(team_members) :
                             team_members'[i] = team_members[i]
                      /\ team_members'[Len(team_members')].k = Strip(name_entry)
                      /\ EmptyCollections(team_members'[Len(team_members')].v)
                 ELSE team_members' = team_members /\ disk' = disk
       /\ \A selected \in TreeSelections, name_entry \in NameEntries,
             join_date \in {DateDash, Date1} :
             (/\ selected # <<>>
              /\ Strip(name_entry) # selected[1]
              /\ Has(team_members, Strip(name_entry))
              /\ ModifyTeamMember(selected, TRUE, name_entry, Title2, join_date,
                                  DateDash, <<>>)) =>
                 team_members' = team_members /\ disk' = disk]_vars

\* a second use of a name was rejected with two members on file
MemberNamesUniqueWitness ==
    /\ msg = "error: member exists"
    /\ Len(team_members) = MaxMembers
    /\ Has(team_members, NameM) /\ Has(team_members, NameN)

\* the fields modify_team_member does not take from its dialog
KeptFields ==
    {"technical_skills", "soft_skills", "software_skills", "certifications",
     "hobbies", "interests", "family", "other_personal_details", "goals",
     "development_plan", "achievements", "issues_concerns"}

\* C15: after a successful rename the old name is gone and the new name
\* holds the old record's skills, certifications, personal and progression
\* fields; the other members, the taxonomy and the meetings are unchanged
RenameKeepsRecord ==
    [][\A selected \in TreeSelections, name_entry \in NameEntries,
          join_date \in {DateDash, Date1} :
          (/\ selected # <<>>
           /\ Strip(name_entry) # selected[1]
           /\ ModifyTeamMember(selected, TRUE, name_entry, Title2, join_date,
                               DateDash, <<>>)
           /\ msg' = "member updated") =>
              /\ ~Has(team_members', selected[1])
              /\ Has(team_members', Strip(name_entry))
              /\ \A f \in KeptFields :
                     Get(team_members', Strip(name_entry))[f] =
                         Get(team_members, selected[1])[f]
              /\ Len(team_members') = Len(team_members)
              /\ \A i \in 1..Len(team_members) :
                     team_members[i].k # selected[1] =>
                         /\ Has(team_members', team_members[i].k)
                         /\ Get(team_members', team_members[i].k) = team_members[i].v
              /\ UNCHANGED <<skills_data, subskills_data, categories, meetings>>]_vars

\* m was renamed to o and o holds what m held
RenameKeepsRecordWitness ==
    /\ msg = "member updated"
    /\ ~Has(team_members, NameM)
    /\ Has(team_members, NameN)
    /\ Has(team_members, NameO)
    /\ GetOr(team_members, NameO, NewMember(EmptyStr, EmptyStr, EmptyStr)).hobbies
           = <<Hobby>>
    /\ GetOr(team_members, NameO, NewMember(EmptyStr, EmptyStr, EmptyStr)).technical_skills
           = FlatList(<<SkillString(CatA, SubX)>>)

\* C16: for Technical, Soft and Software Skills, add_skill_to_member called
\* with a category and a subskill appends "category: subskill" to the end of
\* the selected member's list of the family when both are non-empty and the
\* string is not yet in the list, and otherwise changes no member record and
\* writes nothing
AssignSkillAppends ==
    [][\A st \in SkillTypes \cup {SoftwareSkills},
          category \in {EmptyStr, CatA}, subskill \in {EmptyStr, SubX} :
          (/\ Has(team_members, member_var)
           /\ AddSkillToMemberCall(st, <<category, subskill>>, <<>>)) =>
              LET skill_list == Items(Get(team_members, member_var)[SkillKey(st)])
                  skill == SkillString(category, subskill)
              IN  IF category # EmptyStr /\ subskill # EmptyStr
                     /\ ~InList(skill, skill_list)
                  THEN Items(Get(team_members', member_var)[SkillKey(st)]) =
                           Append(skill_list, skill)
                  ELSE team_members' = team_members /\ disk' = disk]_vars

\* C26: the dialog of add_team_member and modify_team_member accepts the
\* join date and birthday of a member record exactly when update_team_member
\* accepts them, and add_meeting and update_meeting accept either date
\* exactly when the dialog does.
OneDateFormat ==
    \A i \in 1..Len(team_members) :
        LET name == team_members[i].k
            record == team_members[i].v
        IN  /\ DialogAccepts(name, record.join_date, record.birthday)
                <=> (/\ ValidDate(Strip(record.join_date), "/")
                     /\ ValidDate(Strip(record.birthday), "/"))
            /\ ValidDate(Strip(record.join_date), "-") <=> ValidDate(record.join_date, "/")
            /\ ValidDate(Strip(record.birthday), "-") <=> ValidDate(record.birthday, "/")

-----------------------------------------------------------------------------
(* Claims about assigned skills after a load, under SpecLoad *)

\* C17: in every state, also after a legacy document was loaded, no member's
\* technical, soft or software skills or certifications hold a string twice
NoRepeatedAssignments ==
    \A i \in 1..Len(team_members) :
        /\ NoRepeat(Items(team_members[i].v.technical_skills))
        /\ NoRepeat(Items(team_members[i].v.soft_skills))
        /\ NoRepeat(Items(team_members[i].v.software_skills))
        /\ NoRepeat(team_members[i].v.certifications)

\* C30: what load_data left for the file at the data path is either the
\* empty defaults in all four stores, or the document: its skills_data,
\* subskills_data and meetings (the default for a key it lacks) and all its
\* members, each with every legacy skill field flattened.
LoadAllOrNothing ==
    running =>
        LET content == disk[data_file]
            ld == LoadData(content)
            FromDocument(key) == IF key \in content.keys THEN content.doc[key]
                                 ELSE EmptyData[key]
        IN  \/ ld = EmptyData
            \/ /\ content.kind = "doc"
               /\ ld.skills_data = FromDocument("skills_data")
               /\ ld.subskills_data = FromDocument("subskills_data")
               /\ ld.meetings = FromDocument("meetings")
               /\ Keys(ld.team_members) = Keys(FromDocument("team_members"))
               /\ \A i \in 1..Len(ld.team_members) :
                      /\ ~ld.team_members[i].v.technical_skills.isdict
                      /\ ~ld.team_members[i].v.soft_skills.isdict
                      /\ ~ld.team_members[i].v.software_skills.isdict

-----------------------------------------------------------------------------
(* Claims about goals and the Update button, under SpecGoals *)

\* the member the details tab shows, and what it will be after the step
Shown == Get(team_members, member_var)
ShownNext == Get(team_members', member_var)

\* C18: a double click on goal line_num of the shown member, the widget
\* showing the stored goals, leaves the record with that goal removed from
\* goals (the others in order) and appended to achievements, and this record
\* is what the file holds
MoveGoalRemovesGoal ==
    [][\A line_num \in GoalLines :
          (/\ Has(team_members, member_var)
           /\ goals_text = Join(Shown.goals, "\n")
           /\ line_num <= Len(Shown.goals)
           /\ MoveGoalToAchievement(line_num, <<>>)) =>
              /\ ShownNext.goals = Without(Shown.goals, line_num)
              /\ ShownNext.achievements =
                     Append(Shown.achievements, Shown.goals[line_num])
              /\ disk'[data_file'].doc.team_members = team_members']_vars

\* C19: a double click on a line past the stored goals, which is every line
\* when the member has no goals, moves nothing: goals and achievements of
\* every member are unchanged
MoveGoalOutOfRange ==
    [][\A line_num \in GoalLines :
          (/\ Has(team_members, member_var)
           /\ goals_text = Join(Shown.goals, "\n")
           /\ line_num > Len(Shown.goals)
           /\ MoveGoalToAchievement(line_num, <<>>)) =>
              /\ msg' # "goal achieved"
              /\ team_members' = team_members]_vars

\* C20: the Update button, pressed for a listed member with dates its own
\* validate_date accepts, ends in success with job title, dates and hobbies
\* replaced by the entries and the file holding the new registry
UpdateReplacesAndSaves ==
    [][\A job_title \in {Title1, Title2}, join_date \in EntryDates,
          hobbies_entry \in HobbyEntries :
          (/\ Has(team_members, member_var)
           /\ ValidDate(Strip(join_date), "/")
           /\ UpdateTeamMember(job_title, join_date, Date1, hobbies_entry)) =>
              /\ msg' = "member updated"
              /\ ShownNext.job_title = Strip(job_title)
              /\ ShownNext.join_date = Strip(join_date)
              /\ ShownNext.birthday = Date1
              /\ ShownNext.hobbies = Tokens(hobbies_entry)
              /\ ~unsaved'
              /\ disk'[data_file'].doc.team_members = team_members']_vars

\* C29: the list that move_goal_to_achievement appends to is the list that
\* load_member_data displays: every achievement of a member is a line of the
\* achieved goals text shown when the member is selected.
AchievementsAreDisplayed ==
    running =>
        \A i \in 1..Len(team_members) :
            LET member == team_members[i].v
            IN  \A j \in 1..Len(member.achievements) :
                    InList(member.achievements[j], TextLines(AchievedGoalsText(member)))

-----------------------------------------------------------------------------
(* Claims about the meetings tab, under SpecMeet *)

\* C21: update_meeting (with a valid date) and delete_meeting (confirmed) on a
\* position beyond the end of the meeting log raise an index error, and leave
\* the log, the file and the unsaved flag as they were.
IndexErrorLeavesLog ==
    [][\A pos \in Positions, sv \in FewSaveScripts :
          /\ \A date_str \in EntryTexts, title \in MeetingTitles :
                 (/\ pos > Len(meetings)
                  /\ ValidDate(date_str, "/")
                  /\ UpdateMeeting(pos, date_str, title, sv))
                 => (/\ msg' = "error: index"
                     /\ meetings' = meetings
                     /\ disk' = disk
                     /\ unsaved' = unsaved)
          /\ (pos > Len(meetings) /\ DeleteMeeting(pos, TRUE, sv))
             => (/\ msg' = "error: index"
                 /\ meetings' = meetings
                 /\ disk' = disk
                 /\ unsaved' = unsaved)]_vars

\* an index error was raised on an item that the list still shows
IndexErrorRaised ==
    running /\ msg = "error: index" /\ Len(meetings_listbox) > Len(meetings)

\* the calendar date a DD/MM/YYYY string stands for, as a number that orders dates
CalendarDate(text) ==
    LET p == Split(text, "/")
    IN  Number(p[3]) * 10000 + FieldNumber(p[2]) * 100 + FieldNumber(p[1])

Reorderings(n) ==
    {p \in [1..n -> 1..n] : \A i, j \in 1..n : i # j => p[i] # p[j]}

\* C22: the sorted meeting list is a permutation of the meeting log in
\* descending order of calendar date, meetings of one date in the order in
\* which they were added.
SortedByCalendarDate ==
    LET sorted == SortedByDate(meetings)
        n == Len(meetings)
    IN  /\ Len(sorted) = n
        /\ \E p \in Reorderings(n) :
               \A i \in 1..n :
                   /\ sorted[i] = meetings[p[i]]
                   /\ \A j \in (i + 1)..n :
                          \/ CalendarDate(meetings[p[i]].date)
                                 > CalendarDate(meetings[p[j]].date)
                          \/ /\ CalendarDate(meetings[p[i]].date)
                                    = CalendarDate(meetings[p[j]].date)
                             /\ p[i] < p[j]

SameItems(a, b) ==
    /\ Len(a) = Len(b)
    /\ \A i \in 1..Len(a) : Count(a[i], a) = Count(a[i], b)

\* C27: with the list showing the log, the meeting that on_meeting_select
\* puts into the entries, that update_meeting overwrites and that
\* delete_meeting removes is the one displayed at the selected position.
SelectedIsDisplayed ==
    [][\A pos \in 1..MaxMeetings :
          /\ (/\ pos <= Len(meetings)
              /\ meetings_listbox = RefreshMeetingsList(meetings)
              /\ OnMeetingSelect(pos))
             => MeetingItem(Meeting(meeting_entries'.date, meeting_entries'.title))
                    = meetings_listbox[pos]
          /\ \A sv \in FewSaveScripts :
                 /\ (/\ pos <= Len(meetings)
                     /\ meetings_listbox = RefreshMeetingsList(meetings)
                     /\ DeleteMeeting(pos, TRUE, sv))
                    => meetings_listbox' = Without(meetings_listbox, pos)
                 /\ \A date_str \in EntryTexts, title \in MeetingTitles :
                        (/\ pos <= Len(meetings)
                         /\ meetings_listbox = RefreshMeetingsList(meetings)
                         /\ ValidDate(date_str, "/")
                         /\ UpdateMeeting(pos, date_str, title, sv))
                        => SameItems(meetings_listbox',
                                     [meetings_listbox EXCEPT
                                         ![pos] = MeetingItem(Meeting(date_str, title))])]_vars

-----------------------------------------------------------------------------
(* Claims about the CSV import, under SpecCsv *)

\* the fields of a line of the CSV file, stripped
Fields(line) ==
    LET row0 == CsvRow(line)
    IN  StripAll(IF Len(row0) = 1 THEN Split(row0[1], ",") ELSE row0)

WellFormed(lines) == \A i \in 1..Len(lines) : Len(Fields(lines[i])) = 3

\* the skills the rows give for a category and subcategory, in row order
RECURSIVE RowSkills(_, _, _)
RowSkills(lines, category, subcategory) ==
    IF lines = <<>> THEN <<>>
    ELSE LET f == Fields(Head(lines))
             rest == RowSkills(Tail(lines), category, subcategory)
         IN  IF f[1] = category /\ f[2] = subcategory THEN <<f[3]>> \o rest ELSE rest

\* the list under a category and subcategory, empty when either is missing
Skills(cats, category, subcategory) ==
    GetOr(GetOr(cats, category, <<>>), subcategory, <<>>)

\* C23: an import of well-formed rows succeeds and leaves, under every
\* category and subcategory, the former list followed by the row skills it
\* lacked, in row order and once each; what was listed keeps its position,
\* nothing but the rows' categories is created, and the same import again
\* would change nothing.
CsvImportAppendsAbsent ==
    [][\A lines \in ImportFiles, sv \in FewSaveScripts :
          (WellFormed(lines) /\ UploadSkillsCsv(TRUE, lines, sv))
          => /\ msg' = "csv processed"
             /\ \A i \in 1..Len(categories') :
                    LET category == categories'[i].k
                    IN  /\ i <= Len(categories) => categories[i].k = category
                        /\ i > Len(categories)
                               => \E r \in 1..Len(lines) : Fields(lines[r])[1] = category
                        /\ \A j \in 1..Len(categories'[i].v) :
                               LET subcategory == categories'[i].v[j].k
                                   before == Skills(categories, category, subcategory)
                               IN  categories'[i].v[j].v
                                       = before \o Fresh(before,
                                                         RowSkills(lines, category,
                                                                   subcategory))
             /\ Len(categories') >= Len(categories)
             /\ \A r \in 1..Len(lines) :
                    InList(Fields(lines[r])[3],
                           Skills(categories', Fields(lines[r])[1], Fields(lines[r])[2]))
             /\ CsvLoop(categories', lines).cats = categories']_vars

\* rows (T, a, x) and (T, a, y) were imported into a category without them
CsvImportAppendsAbsentWitness ==
    /\ running
    /\ msg = "csv processed"
    /\ Skills(categories, <<"T">>, <<"a">>) = <<<<"x">>, <<"y">>>>

\* the position of the first row that does not give three fields
FirstMalformed(lines) ==
    CHOOSE k \in 1..Len(lines) :
        /\ Len(Fields(lines[k])) # 3
        /\ \A i \in 1..(k - 1) : Len(Fields(lines[i])) = 3

\* C24: an import whose first malformed row is at position k ends with an
\* error, leaves the taxonomy as the import of the rows before k leaves it,
\* and does not write: the files and the save path are unchanged.
CsvImportHaltsAtMalformed ==
    [][\A lines \in ImportFiles, sv \in FewSaveScripts :
          (~WellFormed(lines) /\ UploadSkillsCsv(TRUE, lines, sv))
          => LET k == FirstMalformed(lines)
             IN  /\ msg' = "error: csv"
                 /\ categories' = CsvLoop(categories, SubSeq(lines, 1, k - 1)).cats
                 /\ disk' = disk
                 /\ data_file' = data_file
                 /\ unsaved' = (unsaved \/ categories' # categories)
                 /\ UNCHANGED <<team_members, skills_data, subskills_data, meetings>>]_vars

\* an import failed after it had applied a row, which no file holds
CsvImportHaltsAtMalformedWitness ==
    /\ running
    /\ msg = "error: csv"
    /\ unsaved
    /\ Skills(categories, <<"T">>, <<"a">>) # <<>>
-----------------------------------------------------------------------------
(* Claims about a failing save, under SpecFail *)

\* C25: when the write of a save fails, the stores are as the handler left
\* them, the addition included; only a path the user supplied is written or
\* becomes the save path, and when the user declines the save path is the
\* original one, no other file is touched and the document stays unsaved.
FailedSaveKeepsStores ==
    [][\A date_str \in EntryTexts, sv \in FailingSaves :
          (ValidDate(date_str, "/") /\ AddMeeting(date_str, Title1, sv))
          => /\ meetings' = Append(meetings, Meeting(date_str, Title1))
             /\ UNCHANGED <<team_members, skills_data, subskills_data, categories>>
             /\ \A p \in Paths :
                    disk'[p] # disk[p]
                        => \/ p = data_file /\ Head(sv).fail = "write"
                           \/ p = Head(sv).retry
             /\ data_file' \in {data_file, Head(sv).retry}
             /\ Head(sv).retry = NoRetry => (data_file' = data_file /\ unsaved')
             /\ ~unsaved' => (/\ Head(sv).retry # NoRetry
                              /\ data_file' = Head(sv).retry
                              /\ disk'[data_file'] = DocFile(Document', DocKeys))]_vars

\* a meeting was added, its save failed and the user declined another path
FailedSaveKeepsStoresWitness ==
    /\ running
    /\ msg = "meeting added"
    /\ unsaved
    /\ meetings # <<>>
    /\ data_file = DefaultPath
    /\ disk[OtherPath] = Missing

=============================================================================
